---- MODULE Spec2Model ----
(***************************************************************************)
(* Model of the embedding mosaic acquisition and sampling of               *)
(* classifier/training.py (class EmbeddingManager).                        *)
(*                                                                         *)
(* Coordinates are integers in hundredths of a degree, so the 0.1 degree   *)
(* tile step is 10 and the 0.05 degree grid offset is 5; arithmetic is     *)
(* exact (binary floating-point rounding is not modelled).  Arrays are     *)
(* records [h, w, c, px] with px a function over <<row, col>> (0-based)    *)
(* giving the channel vector of a pixel as a function over 0..c-1.         *)
(***************************************************************************)
EXTENDS Integers, Sequences, FiniteSets, TLC

\* ------------------------------------------------------------------ bounds
\* largest number of tile directories present in the local cache
MaxTiles == 2

\* --------------------------------------------------------- program constants
\* step = 0.1 degree, in hundredths of a degree
step == 10
\* the 0.05 degree offset of the snap grid, in hundredths of a degree
offset == 5
\* EPSG code of the CRS given to every mosaic
EPSG == 4326

\* Python's None: as the value of an object field, and among strings
None == [none |-> TRUE]
NoneStr == "None"
\* a tile file that does not exist has no shape
Absent == << >>

\* ------------------------------------------------------------- environment
\* SW corners of the grid cells the modelled cache directory can hold
GridLons == {5, 15, 25}
GridLats == {5, 15}
Universe == GridLons \X GridLats

\* bounding boxes (min_lon, min_lat, max_lon, max_lat) a manager is built with
BBoxes == { <<6, 6, 14, 14>>, <<6, 6, 26, 16>> }

\* the files a tile directory can hold: the shape of the int8 data array and
\* the shape of the scales array (Absent when the file does not exist)
TileVariants ==
  { [data |-> <<2, 2, 2>>, scales |-> <<2, 2>>],
    [data |-> <<1, 2, 2>>, scales |-> <<1, 2>>],
    [data |-> <<2, 1, 2>>, scales |-> <<2, 1>>],
    [data |-> <<2, 2, 1>>, scales |-> <<2, 2>>],
    [data |-> <<2, 2, 2>>, scales |-> Absent],
    [data |-> <<2, 2, 2>>, scales |-> <<3, 3>>] }

NoTile == [data |-> Absent, scales |-> Absent]

\* --------------------------------------------------------------- arithmetic
Min(S) == CHOOSE x \in S : \A y \in S : x <= y
Max(S) == CHOOSE x \in S : \A y \in S : x >= y

\* floor(n / d) for any non-zero d
FloorDiv(n, d) == IF d > 0 THEN n \div d ELSE (0 - n) \div (0 - d)
\* ceil(n / d) for d > 0
CeilDiv(n, d) == 0 - ((0 - n) \div d)

\* sorted(S) and sorted(S, reverse=True) of a set of numbers
RECURSIVE SortedAsc(_)
SortedAsc(S) == IF S = {} THEN << >>
                ELSE <<Min(S)>> \o SortedAsc(S \ {Min(S)})
RECURSIVE SortedDesc(_)
SortedDesc(S) == IF S = {} THEN << >>
                 ELSE <<Max(S)>> \o SortedDesc(S \ {Max(S)})

\* ------------------------------------------------------------------- arrays
ValueError == [error |-> "ValueError"]
IsError(x) == "error" \in DOMAIN x

Array(h, w, c, f(_, _, _)) ==
  [h |-> h, w |-> w, c |-> c,
   px |-> [rc \in (0 .. h - 1) \X (0 .. w - 1) |->
             [k \in 0 .. c - 1 |-> f(rc[1], rc[2], k)]]]

\* np.zeros((h, w, c))
Zeros(h, w, c) == LET z(r, q, k) == 0 IN Array(h, w, c, z)

\* Crop keeping the bottom-right block, tile[-th:, -tw:, :]
Crop_BottomRight(t, th, tw) ==
  LET hh == IF th < t.h THEN th ELSE t.h
      ww == IF tw < t.w THEN tw ELSE t.w
      v(r, q, k) == t.px[<<r + t.h - hh, q + t.w - ww>>][k]
  IN Array(hh, ww, t.c, v)

\* tile[:th, :tw, :]
Crop(t, th, tw) ==
  LET hh == IF th < t.h THEN th ELSE t.h
      ww == IF tw < t.w THEN tw ELSE t.w
      v(r, q, k) == t.px[<<r, q>>][k]
  IN Array(hh, ww, t.c, v)

\* np.concatenate([a, b], axis=1): all dimensions but the width must agree
Concat1(a, b) ==
  IF IsError(a) \/ IsError(b) THEN ValueError
  ELSE IF a.h # b.h \/ a.c # b.c THEN ValueError
  ELSE LET v(r, q, k) == IF q < a.w THEN a.px[<<r, q>>][k]
                         ELSE b.px[<<r, q - a.w>>][k]
       IN Array(a.h, a.w + b.w, a.c, v)

\* np.concatenate([a, b], axis=0): all dimensions but the height must agree
Concat0(a, b) ==
  IF IsError(a) \/ IsError(b) THEN ValueError
  ELSE IF a.w # b.w \/ a.c # b.c THEN ValueError
  ELSE LET v(r, q, k) == IF r < a.h THEN a.px[<<r, q>>][k]
                         ELSE b.px[<<r - a.h, q>>][k]
       IN Array(a.h + b.h, a.w, a.c, v)

RECURSIVE ConcatenateAxis1(_)
ConcatenateAxis1(s) ==
  IF Len(s) = 1 THEN s[1]
  ELSE Concat1(ConcatenateAxis1(SubSeq(s, 1, Len(s) - 1)), s[Len(s)])

RECURSIVE ConcatenateAxis0(_)
ConcatenateAxis0(s) ==
  IF Len(s) = 1 THEN s[1]
  ELSE Concat0(ConcatenateAxis0(SubSeq(s, 1, Len(s) - 1)), s[Len(s)])

\* ------------------------------------------------------ the local tile cache
\* tile_name = f"grid_{lon:.2f}_{lat:.2f}"
TileName(lon, lat) == <<"grid", lon, lat>>

\* position of a grid cell in the modelled cache directory
CellIndex(lon, lat) == (lon - offset) \div step + 3 * ((lat - offset) \div step)

\* np.load(npy_file): the int8 array of the tile, every element distinct
NpyData(lon, lat, shape) ==
  LET raw(r, q, k) == 1 + k + 2 * (q + 2 * (r + 2 * CellIndex(lon, lat)))
  IN Array(shape[1], shape[2], shape[3], raw)

\* np.load(scales_file): the (h, w) scale array of the tile
NpyScales(lon, lat, shape) ==
  [h |-> shape[1], w |-> shape[2],
   px |-> [rc \in (0 .. shape[1] - 1) \X (0 .. shape[2] - 1) |->
             1 + ((rc[1] + rc[2] + CellIndex(lon, lat)) % 2)]]

\* numpy broadcasting of one dimension; 0 when the sizes are incompatible
BroadcastDim(a, b) ==
  IF a = b THEN a ELSE IF a = 1 THEN b ELSE IF b = 1 THEN a ELSE 0

\* data.astype(np.float32) * scales[:, :, np.newaxis]
Dequantize(data, scales) ==
  LET hh == BroadcastDim(data.h, scales.h)
      ww == BroadcastDim(data.w, scales.w)
      v(r, q, k) ==
        data.px[<<IF data.h = 1 THEN 0 ELSE r, IF data.w = 1 THEN 0 ELSE q>>][k]
        * scales.px[<<IF scales.h = 1 THEN 0 ELSE r,
                      IF scales.w = 1 THEN 0 ELSE q>>]
  IN IF hh = 0 \/ ww = 0 THEN ValueError ELSE Array(hh, ww, data.c, v)

\* np.arange takes its length as ceil((stop - start) / st) evaluated in
\* binary64, so that the last element can reach or pass stop (numpy documents
\* this). The (start, stop, st) among the modelled arguments, in hundredths
\* of a degree, whose binary64 quotient of the degree values exceeds the exact
\* integer quotient: (0.14 - 0.06) / 0.04 = 2.0000000000000004,
\* (0.14 - 0.1) / 0.04 = 1.0000000000000002, (0.4 - 0.1) / 0.05 =
\* 6.000000000000001, (0.2 - 0.15) / 0.05 = 1.0000000000000004,
\* (0.4 - 0.1) / 0.1 = 3.0000000000000004
Binary64RoundsUp ==
  { <<6, 14, 4>>, <<10, 14, 4>>, <<10, 40, 5>>, <<15, 20, 5>>, <<10, 40, 10>> }

\* np.arange(start, stop, st)
Arange(start, stop, st) ==
  LET n == IF stop > start
           THEN CeilDiv(stop - start, st) +
                (IF <<start, stop, st>> \in Binary64RoundsUp THEN 1 ELSE 0)
           ELSE 0
  IN [i \in 1 .. n |-> start + (i - 1) * st]

\* lons: the tile longitudes looked for, from the snapped bbox
EnumerateLons(bbox) ==
  LET start_lon == FloorDiv(bbox[1] + offset, step) * step - offset
      end_lon == CeilDiv(bbox[3] + offset, step) * step - offset
  IN Arange(start_lon, end_lon + step \div 2, step)

\* lats: the tile latitudes looked for, from the snapped bbox
EnumerateLats(bbox) ==
  LET start_lat == FloorDiv(bbox[2] + offset, step) * step - offset
      end_lat == CeilDiv(bbox[4] + offset, step) * step - offset
  IN Arange(start_lat, end_lat + step \div 2, step)

\* npy_file.exists()
NpyExists(files, lon, lat) ==
  /\ TileName(lon, lat) \in DOMAIN files
  /\ files[TileName(lon, lat)].data # Absent

\* scales_file.exists()
ScalesExists(files, lon, lat) ==
  /\ TileName(lon, lat) \in DOMAIN files
  /\ files[TileName(lon, lat)].scales # Absent

\* the guard of the load: both files of the tile exist
TileLoadable(files, lon, lat) ==
  NpyExists(files, lon, lat) /\ ScalesExists(files, lon, lat)

\* the body of the load loop for one tile: its tiles_info entry (with the
\* de-quantized array), or ValueError when the broadcast fails
LoadTile(files, lon, lat) ==
  LET f == files[TileName(lon, lat)]
      embeddings == Dequantize(NpyData(lon, lat, f.data),
                               NpyScales(lon, lat, f.scales))
  IN IF IsError(embeddings) THEN ValueError
     ELSE [lon |-> lon, lat |-> lat, emb |-> embeddings]

\* the (lon, lat) pairs in the order the nested loops visit them
LoopOrder(lons, lats) ==
  [n \in 1 .. Len(lons) * Len(lats) |->
     <<lons[((n - 1) \div Len(lats)) + 1], lats[((n - 1) % Len(lats)) + 1]>>]

\* LoadLoop with a load that does not test for the files first: an absent
\* tile raises
RECURSIVE LoadLoop_RaiseOnAbsent(_, _, _)
LoadLoop_RaiseOnAbsent(files, cells, n) ==
  IF n = 0 THEN [failed |-> FALSE, tiles_info |-> << >>]
  ELSE LET before == LoadLoop_RaiseOnAbsent(files, cells, n - 1)
           lon == cells[n][1]
           lat == cells[n][2]
       IN IF before.failed THEN before
          ELSE IF ~TileLoadable(files, lon, lat)
          THEN [failed |-> TRUE, tiles_info |-> << >>]
          ELSE IF IsError(LoadTile(files, lon, lat))
          THEN [failed |-> TRUE, tiles_info |-> << >>]
          ELSE [failed |-> FALSE,
                tiles_info |-> Append(before.tiles_info,
                                      LoadTile(files, lon, lat))]

\* the load loop over the first n cells: the tiles_info list (each entry
\* with its tiles_data array), or failed as soon as one load raises
RECURSIVE LoadLoop(_, _, _)
LoadLoop(files, cells, n) ==
  IF n = 0 THEN [failed |-> FALSE, tiles_info |-> << >>]
  ELSE LET before == LoadLoop(files, cells, n - 1)
           lon == cells[n][1]
           lat == cells[n][2]
       IN IF before.failed THEN before
          ELSE IF ~TileLoadable(files, lon, lat) THEN before
          ELSE IF IsError(LoadTile(files, lon, lat))
          THEN [failed |-> TRUE, tiles_info |-> << >>]
          ELSE [failed |-> FALSE,
                tiles_info |-> Append(before.tiles_info,
                                      LoadTile(files, lon, lat))]

\* --------------------------------------------------------- mosaic assembly
\* unique_lons = sorted(set(t[0] for t in tiles_info))
UniqueLons(tiles_info) ==
  SortedAsc({tiles_info[i].lon : i \in 1 .. Len(tiles_info)})

\* UniqueLats without reverse=True
UniqueLats_Ascending(tiles_info) ==
  SortedAsc({tiles_info[i].lat : i \in 1 .. Len(tiles_info)})

\* unique_lats = sorted(set(t[1] for t in tiles_info), reverse=True)
UniqueLats(tiles_info) ==
  SortedDesc({tiles_info[i].lat : i \in 1 .. Len(tiles_info)})

\* TileH taking the height of the first tile loaded
TileH_First(tiles_info) == tiles_info[1].emb.h

\* tile_h = min(all_heights)
TileH(tiles_info) == Min({tiles_info[i].emb.h : i \in 1 .. Len(tiles_info)})

\* tile_w = min(all_widths)
TileW(tiles_info) == Min({tiles_info[i].emb.w : i \in 1 .. Len(tiles_info)})

\* channels = tiles_info[0][2][2]
Channels(tiles_info) == tiles_info[1].emb.c

\* tile_map = {(t[0], t[1]): i ...}: the index stored under the key (the
\* last one written), 0 when the key is not in the map
TileMap(tiles_info, lon, lat) ==
  LET S == {i \in 1 .. Len(tiles_info) :
              tiles_info[i].lon = lon /\ tiles_info[i].lat = lat}
  IN IF S = {} THEN 0 ELSE Max(S)

\* Block cropping the channels too, to the smallest channel count
Block_TruncateChannels(tiles_info, lon, lat) ==
  LET cmin == Min({tiles_info[i].emb.c : i \in 1 .. Len(tiles_info)})
      t == tiles_info[TileMap(tiles_info, lon, lat)].emb
      v(r, q, k) == t.px[<<r, q>>][k]
  IN IF TileMap(tiles_info, lon, lat) # 0
     THEN Array(TileH(tiles_info), TileW(tiles_info), cmin, v)
     ELSE Zeros(TileH(tiles_info), TileW(tiles_info), cmin)

\* the block placed for the cell (lon, lat): the cropped tile, or zeros
Block(tiles_info, lon, lat) ==
  IF TileMap(tiles_info, lon, lat) # 0
  THEN Crop(tiles_info[TileMap(tiles_info, lon, lat)].emb,
            TileH(tiles_info), TileW(tiles_info))
  ELSE Zeros(TileH(tiles_info), TileW(tiles_info), Channels(tiles_info))

\* the stitch loops and the final np.concatenate(rows, axis=0): the mosaic,
\* or ValueError when a concatenation raises
Stitch(tiles_info) ==
  LET unique_lons == UniqueLons(tiles_info)
      unique_lats == UniqueLats(tiles_info)
      rows == [j \in 1 .. Len(unique_lats) |->
                 ConcatenateAxis1(
                   [i \in 1 .. Len(unique_lons) |->
                      Block(tiles_info, unique_lons[i], unique_lats[j])])]
  IN ConcatenateAxis0(rows)

\* rasterio.transform.from_bounds(west, south, east, north, width, height):
\* the affine map with b = d = 0; a and e are kept as fractions <<num, den>>
FromBounds(west, south, east, north, width, height) ==
  [a |-> <<east - west, width>>, e |-> <<south - north, height>>,
   c |-> west, f |-> north]

\* MosaicTransform with the north edge at the SW-corner latitude of the
\* top row of tiles (the "+ step" left out)
MosaicTransform_NoNorthStep(tiles_info, mosaic) ==
  LET unique_lons == UniqueLons(tiles_info)
      unique_lats == UniqueLats(tiles_info)
      mosaic_min_lon == unique_lons[1]
      mosaic_max_lat == unique_lats[1]
  IN FromBounds(mosaic_min_lon,
                mosaic_max_lat - step * Len(unique_lats),
                mosaic_min_lon + step * Len(unique_lons),
                mosaic_max_lat,
                mosaic.w, mosaic.h)

\* the transform given to the stitched mosaic
MosaicTransform(tiles_info, mosaic) ==
  LET unique_lons == UniqueLons(tiles_info)
      unique_lats == UniqueLats(tiles_info)
      mosaic_min_lon == unique_lons[1]
      mosaic_max_lat == unique_lats[1] + step
  IN FromBounds(mosaic_min_lon,
                mosaic_max_lat - step * Len(unique_lats),
                mosaic_min_lon + step * Len(unique_lons),
                mosaic_max_lat,
                mosaic.w, mosaic.h)

\* CRS.from_epsg(4326)
CrsFromEpsg(code) == [epsg |-> code]

\* _load_from_local_cache from the stitch on, given the loaded tiles_info
Assemble(tiles_info) ==
  IF IsError(Stitch(tiles_info)) THEN [kind |-> "raise"]
  ELSE [kind |-> "return", ret |-> TRUE,
        embedding_mosaic |-> Stitch(tiles_info),
        mosaic_transform |-> MosaicTransform(tiles_info, Stitch(tiles_info)),
        mosaic_crs |-> CrsFromEpsg(EPSG)]

\* what the load loop builds for a bbox
TilesInfo(box, files) ==
  LET cells == LoopOrder(EnumerateLons(box), EnumerateLats(box))
  IN LoadLoop(files, cells, Len(cells))

\* _load_from_local_cache: "raise" (a ValueError propagates), or "return"
\* with the returned flag and, on True, the three fields it assigned
LoadFromLocalCache(box, dir_exists, files) ==
  IF ~dir_exists THEN [kind |-> "return", ret |-> FALSE]
  ELSE IF TilesInfo(box, files).failed THEN [kind |-> "raise"]
  ELSE IF TilesInfo(box, files).tiles_info = << >>
  THEN [kind |-> "return", ret |-> FALSE]
  ELSE Assemble(TilesInfo(box, files).tiles_info)

\* ----------------------------------------------------------------- sampling
\* rasterio.transform.rowcol(transform, lon, lat): floor of the inverse map
RowCol(t, lon, lat) ==
  <<FloorDiv((lat - t.f) * t.e[2], t.e[1]),
    FloorDiv((lon - t.c) * t.a[2], t.a[1])>>

\* SamplePoint without the lower bounds: a negative index counts from the
\* end of the axis, as numpy indexing does
SamplePoint_NoLowerBound(mosaic, t, pt) ==
  LET rc == RowCol(t, pt[1], pt[2])
      row == rc[1]
      col == rc[2]
  IN IF row < mosaic.h /\ col < mosaic.w
     THEN [embedding |-> mosaic.px[<<row % mosaic.h, col % mosaic.w>>],
           valid |-> TRUE]
     ELSE [embedding |-> [k \in 0 .. mosaic.c - 1 |-> 0], valid |-> FALSE]

\* SamplePoint leaving valid_mask[i] at its initial True on a miss
SamplePoint_MaskNotCleared(mosaic, t, pt) ==
  LET rc == RowCol(t, pt[1], pt[2])
      row == rc[1]
      col == rc[2]
  IN IF 0 <= row /\ row < mosaic.h /\ 0 <= col /\ col < mosaic.w
     THEN [embedding |-> mosaic.px[<<row, col>>], valid |-> TRUE]
     ELSE [embedding |-> [k \in 0 .. mosaic.c - 1 |-> 0], valid |-> TRUE]

\* the loop body of sample_at_points for one point
SamplePoint(mosaic, t, pt) ==
  LET rc == RowCol(t, pt[1], pt[2])
      row == rc[1]
      col == rc[2]
  IN IF 0 <= row /\ row < mosaic.h /\ 0 <= col /\ col < mosaic.w
     THEN [embedding |-> mosaic.px[<<row, col>>], valid |-> TRUE]
     ELSE [embedding |-> [k \in 0 .. mosaic.c - 1 |-> 0], valid |-> FALSE]

\* sample_at_points: (embeddings, valid_mask), or RuntimeError
SampleAtPoints(mosaic, t, points) ==
  IF mosaic = None THEN [kind |-> "raise", error |-> "RuntimeError"]
  ELSE [kind |-> "return",
        embeddings |-> [i \in 1 .. Len(points) |->
                          SamplePoint(mosaic, t, points[i]).embedding],
        valid_mask |-> [i \in 1 .. Len(points) |->
                          SamplePoint(mosaic, t, points[i]).valid]]

\* ------------------------------------------------- remote tiles and GeoTIFF
\* rasters with the band axis first, as rasterio reads and merges them:
\* [count, h, w, bd] with bd[k] the band k as a function over <<row, col>>
\* np.moveaxis(data, 0, -1): (channels, height, width) to (height, width, channels)
MoveAxis(b) ==
  LET v(r, q, k) == b.bd[k][<<r, q>>]
  IN Array(b.h, b.w, b.count, v)

\* the band loop dst.write(mosaic[:, :, i], i + 1)
WriteBands(m) ==
  [count |-> m.c, h |-> m.h, w |-> m.w,
   bd |-> [k \in 0 .. m.c - 1 |->
             [rc \in (0 .. m.h - 1) \X (0 .. m.w - 1) |-> m.px[rc][k]]]]

\* _save_to_tif: the file written at cache_path
SaveToTif(mosaic, t, crs) ==
  [raster |-> WriteBands(mosaic), transform |-> t, crs |-> crs]

\* _load_from_tif: the three fields read back from the file
LoadFromTif(file) ==
  [embedding_mosaic |-> MoveAxis(file.raster),
   mosaic_transform |-> file.transform,
   mosaic_crs |-> file.crs]

\* the tile lists the remote registry can answer with (SW corners, in the
\* order the fetcher yields them)
RemoteTileLists ==
  { << >>, << <<5, 5>> >>, << <<25, 5>>, <<5, 5>> >> }

\* one tuple yielded by gt.fetch_embeddings: a 2 x 2 x 2 array registered to
\* its 0.1 degree cell
FetchedTile(lon, lat) ==
  LET v(r, q, k) == 101 + k + 2 * (q + 2 * (r + 2 * CellIndex(lon, lat)))
  IN [lon |-> lon, lat |-> lat, embedding_array |-> Array(2, 2, 2, v),
      transform |-> FromBounds(lon, lat, lon + step, lat + step, 2, 2)]

\* rasterio.merge.merge(tile_datasets) for rasters of one resolution: the
\* union of the bounds at the first raster's resolution, first raster wins,
\* 0 where no raster lies; returns (mosaic_data, mosaic_transform)
Merge(ds) ==
  LET idx == 1 .. Len(ds)
      west == Min({ds[i].transform.c : i \in idx})
      north == Max({ds[i].transform.f : i \in idx})
      east == Max({ds[i].lon + step : i \in idx})
      south == Min({ds[i].lat : i \in idx})
      a == ds[1].transform.a
      e == ds[1].transform.e
      width == ((east - west) * a[2]) \div a[1]
      height == ((south - north) * e[2]) \div e[1]
      coff(i) == ((ds[i].transform.c - west) * a[2]) \div a[1]
      roff(i) == ((ds[i].transform.f - north) * e[2]) \div e[1]
      covers(i, r, q) ==
        /\ roff(i) <= r /\ r < roff(i) + ds[i].embedding_array.h
        /\ coff(i) <= q /\ q < coff(i) + ds[i].embedding_array.w
      val(r, q, k) ==
        LET S == {i \in idx : covers(i, r, q)}
        IN IF S = {} THEN 0
           ELSE ds[Min(S)].embedding_array.px[<<r - roff(Min(S)),
                                               q - coff(Min(S))>>][k]
      count == ds[1].embedding_array.c
  IN [mosaic_data |->
        [count |-> count, h |-> height, w |-> width,
         bd |-> [k \in 0 .. count - 1 |->
                   [rc \in (0 .. height - 1) \X (0 .. width - 1) |->
                      val(rc[1], rc[2], k)]]],
      mosaic_transform |-> [a |-> a, e |-> e, c |-> west, f |-> north]]

\* RemoteBranch without the test for an empty registry answer
RemoteBranch_NoEmptyCheck(tiles, fail_after) ==
  IF fail_after < Len(tiles)
  THEN [kind |-> "raise", error |-> "FetchFailure", open |-> fail_after]
  ELSE [kind |-> "return",
        embedding_mosaic |-> Zeros(0, 0, 0),
        mosaic_transform |-> FromBounds(0, 0, 0, 0, 0, 0),
        mosaic_crs |-> CrsFromEpsg(EPSG),
        open |-> 0]

\* the remote branch of download_embeddings for the registry answer `tiles`
\* and a fetch that raises after yielding fail_after tiles (Len(tiles): never):
\* what is raised, or the fields assigned, and the datasets left open
RemoteBranch(tiles, fail_after) ==
  IF tiles = << >>
  THEN [kind |-> "raise", error |-> "DataUnavailable", open |-> 0]
  ELSE IF fail_after < Len(tiles)
  THEN [kind |-> "raise", error |-> "FetchFailure", open |-> fail_after]
  ELSE LET tile_datasets == [i \in 1 .. Len(tiles) |->
                               FetchedTile(tiles[i][1], tiles[i][2])]
           merged == Merge(tile_datasets)
       IN [kind |-> "return",
           embedding_mosaic |-> MoveAxis(merged.mosaic_data),
           mosaic_transform |-> merged.mosaic_transform,
           mosaic_crs |-> CrsFromEpsg(EPSG),
           open |-> 0]

\* -------------------------------------------------------------------- state
VARIABLES
  files,             \* the tile directories under local_cache_dir / year
  year_dir_exists,   \* cache_year_dir.exists()
  tif,               \* the GeoTIFF at cache_path, None while it does not exist
  bbox,              \* self.bbox
  embedding_mosaic,  \* self.embedding_mosaic
  mosaic_transform,  \* self.mosaic_transform
  mosaic_crs,        \* self.mosaic_crs
  pc,                \* position of the running download_embeddings call
  cache_path,        \* the cache_path argument of the running call
  raised,            \* the exception the call ended with, NoneStr otherwise
  log,               \* the stages the running call went through
  placed,            \* the tiles the running call put into a mosaic
  fetches,           \* registry queries made by the running call
  tiles_to_fetch,    \* the registry's answer to the running call
  open_datasets,     \* datasets opened by the running call and not closed
  samples,           \* what the last sample_at_points call returned
  classifier,        \* a SpeciesClassifier object
  method,            \* a ClassifierMethod object
  prediction,        \* how the run's find_candidates call ended
  out                \* the run's scoring call and how it ended

vars == <<files, year_dir_exists, tif, bbox, embedding_mosaic, mosaic_transform,
          mosaic_crs, pc, cache_path, raised, log, placed, fetches,
          tiles_to_fetch, open_datasets, samples, classifier, method,
          prediction, out>>

env == <<files, year_dir_exists, bbox>>
fields == <<embedding_mosaic, mosaic_transform, mosaic_crs>>
scoring == <<classifier, method, prediction, out>>

\* the sample_at_points inputs: west-to-east rows of points, the outer ones
\* beyond every cell of the modelled grid
PointLons == <<3, 7, 12, 20, 30, 37>>
PointLats == {3, 12, 20}
PointLists == {[i \in 1 .. Len(PointLons) |-> <<PointLons[i], lat>>] :
                 lat \in PointLats}

CachePaths == {NoneStr, "cache.tif"}

PresentCells(f) == {cell \in Universe : f[TileName(cell[1], cell[2])] # NoTile}

\* EmbeddingManager.__init__ over every cache directory of at most MaxTiles
\* tiles; a year directory that does not exist holds no tile
Init ==
  /\ files \in [{TileName(cell[1], cell[2]) : cell \in Universe} ->
                  TileVariants \cup {NoTile}]
  /\ Cardinality(PresentCells(files)) <= MaxTiles
  /\ year_dir_exists \in BOOLEAN
  /\ ~year_dir_exists => PresentCells(files) = {}
  /\ tif = None
  /\ bbox \in BBoxes
  /\ embedding_mosaic = None
  /\ mosaic_transform = None
  /\ mosaic_crs = None
  /\ pc = "idle"
  /\ cache_path = NoneStr
  /\ raised = NoneStr
  /\ log = << >>
  /\ placed = {}
  /\ fetches = 0
  /\ tiles_to_fetch = << >>
  /\ open_datasets = 0
  /\ samples = None
  /\ classifier = None
  /\ method = None
  /\ prediction = None
  /\ out = None

\* EmbeddingManager(bbox, year): a new manager for the same request
EmbeddingManagerInit ==
  /\ pc = "idle"
  /\ embedding_mosaic # None
  /\ embedding_mosaic' = None
  /\ mosaic_transform' = None
  /\ mosaic_crs' = None
  /\ samples' = None
  /\ UNCHANGED <<env, scoring, tif, pc, cache_path, raised, log, placed, fetches,
                 tiles_to_fetch, open_datasets>>

\* DownloadEmbeddings going to the remote registry without trying the local
\* cache
DownloadEmbeddings_RemoteFirst ==
  /\ pc = "idle"
  /\ \E cp \in CachePaths :
       /\ cache_path' = cp
       /\ IF cp # NoneStr /\ tif # None
          THEN /\ embedding_mosaic' = LoadFromTif(tif).embedding_mosaic
               /\ mosaic_transform' = LoadFromTif(tif).mosaic_transform
               /\ mosaic_crs' = LoadFromTif(tif).mosaic_crs
               /\ pc' = "DONE"
               /\ log' = <<"TIF_HIT">>
          ELSE /\ UNCHANGED fields
               /\ pc' = "TRY_REMOTE"
               /\ log' = <<"TRY_REMOTE">>
  /\ raised' = NoneStr
  /\ placed' = {}
  /\ fetches' = 0
  /\ tiles_to_fetch' = << >>
  /\ open_datasets' = 0
  /\ samples' = None
  /\ UNCHANGED <<env, scoring, tif>>

\* download_embeddings(cache_path), up to the local cache attempt: an
\* existing GeoTIFF is loaded and the call is over
DownloadEmbeddings ==
  /\ pc = "idle"
  /\ \E cp \in CachePaths :
       /\ cache_path' = cp
       /\ IF cp # NoneStr /\ tif # None
          THEN /\ embedding_mosaic' = LoadFromTif(tif).embedding_mosaic
               /\ mosaic_transform' = LoadFromTif(tif).mosaic_transform
               /\ mosaic_crs' = LoadFromTif(tif).mosaic_crs
               /\ pc' = "DONE"
               /\ log' = <<"TIF_HIT">>
          ELSE /\ UNCHANGED fields
               /\ pc' = "TRY_LOCAL"
               /\ log' = <<"TRY_LOCAL">>
  /\ raised' = NoneStr
  /\ placed' = {}
  /\ fetches' = 0
  /\ tiles_to_fetch' = << >>
  /\ open_datasets' = 0
  /\ samples' = None
  /\ UNCHANGED <<env, scoring, tif>>

\* the tiles of a tiles_info list, as provenance records
Provenance(src, tiles_info) ==
  {[src |-> src, lon |-> tiles_info[i].lon, lat |-> tiles_info[i].lat] :
     i \in 1 .. Len(tiles_info)}

\* TryLocal without the return after a hit: the call goes on to the remote
\* registry
TryLocal_NoReturn ==
  /\ pc = "TRY_LOCAL"
  /\ LET r == LoadFromLocalCache(bbox, year_dir_exists, files)
     IN IF r.kind = "raise"
        THEN /\ pc' = "RAISED"
             /\ raised' = "ValueError"
             /\ log' = log \o <<"ERROR">>
             /\ UNCHANGED <<fields, tif, placed>>
        ELSE IF r.ret
        THEN /\ embedding_mosaic' = r.embedding_mosaic
             /\ mosaic_transform' = r.mosaic_transform
             /\ mosaic_crs' = r.mosaic_crs
             /\ placed' = placed \cup
                  Provenance("local", TilesInfo(bbox, files).tiles_info)
             /\ pc' = "TRY_REMOTE"
             /\ log' = log \o <<"MISS", "TRY_REMOTE">>
             /\ UNCHANGED <<tif, raised>>
        ELSE /\ pc' = "TRY_REMOTE"
             /\ log' = log \o <<"MISS", "TRY_REMOTE">>
             /\ UNCHANGED <<fields, tif, placed, raised>>
  /\ UNCHANGED <<env, scoring, cache_path, fetches, tiles_to_fetch, open_datasets,
                 samples>>

\* download_embeddings at `if self._load_from_local_cache():`; the write of
\* the GeoTIFF at cache_path can fail (OSError or a rasterio error), which
\* propagates after the three fields were assigned
TryLocal ==
  /\ pc = "TRY_LOCAL"
  /\ LET r == LoadFromLocalCache(bbox, year_dir_exists, files)
     IN IF r.kind = "raise"
        THEN /\ pc' = "RAISED"
             /\ raised' = "ValueError"
             /\ log' = log \o <<"ERROR">>
             /\ UNCHANGED <<fields, tif, placed>>
        ELSE IF r.ret
        THEN /\ embedding_mosaic' = r.embedding_mosaic
             /\ mosaic_transform' = r.mosaic_transform
             /\ mosaic_crs' = r.mosaic_crs
             /\ placed' = placed \cup
                  Provenance("local", TilesInfo(bbox, files).tiles_info)
             /\ IF cache_path # NoneStr
                THEN \E written \in BOOLEAN :
                       IF written
                       THEN /\ tif' = SaveToTif(r.embedding_mosaic,
                                                r.mosaic_transform, r.mosaic_crs)
                            /\ log' = log \o <<"HIT", "CACHE_WRITE">>
                            /\ pc' = "DONE"
                            /\ raised' = NoneStr
                       ELSE /\ tif' = tif
                            /\ log' = log \o <<"HIT", "WRITE_FAILED">>
                            /\ pc' = "RAISED"
                            /\ raised' = "OSError"
                ELSE /\ tif' = tif
                     /\ log' = log \o <<"HIT">>
                     /\ pc' = "DONE"
                     /\ raised' = NoneStr
        ELSE /\ pc' = "TRY_REMOTE"
             /\ log' = log \o <<"MISS", "TRY_REMOTE">>
             /\ UNCHANGED <<fields, tif, placed, raised>>
  /\ UNCHANGED <<env, scoring, cache_path, fetches, tiles_to_fetch, open_datasets,
                 samples>>

\* download_embeddings from the registry query to its end
TryRemote ==
  /\ pc = "TRY_REMOTE"
  /\ \E tiles \in RemoteTileLists :
     \E fail_after \in 0 .. Len(tiles) :
       LET r == RemoteBranch(tiles, fail_after)
       IN /\ fetches' = fetches + 1
          /\ tiles_to_fetch' = tiles
          /\ open_datasets' = r.open
          /\ IF r.kind = "raise"
             THEN /\ pc' = "RAISED"
                  /\ raised' = r.error
                  /\ log' = log \o <<IF r.error = "DataUnavailable"
                                     THEN "EMPTY" ELSE "FETCH_FAILED">>
                  /\ UNCHANGED <<fields, tif, placed>>
             ELSE /\ embedding_mosaic' = r.embedding_mosaic
                  /\ mosaic_transform' = r.mosaic_transform
                  /\ mosaic_crs' = r.mosaic_crs
                  /\ placed' = placed \cup
                       {[src |-> "remote", lon |-> tiles[i][1],
                         lat |-> tiles[i][2]] : i \in 1 .. Len(tiles)}
                  /\ IF cache_path # NoneStr
                     THEN \E written \in BOOLEAN :
                            IF written
                            THEN /\ tif' = SaveToTif(r.embedding_mosaic,
                                                     r.mosaic_transform,
                                                     r.mosaic_crs)
                                 /\ log' = log \o <<"SUCCESS", "CACHE_WRITE">>
                                 /\ pc' = "DONE"
                                 /\ raised' = NoneStr
                            ELSE /\ tif' = tif
                                 /\ log' = log \o <<"SUCCESS", "WRITE_FAILED">>
                                 /\ pc' = "RAISED"
                                 /\ raised' = "OSError"
                     ELSE /\ tif' = tif
                          /\ log' = log \o <<"SUCCESS">>
                          /\ pc' = "DONE"
                          /\ raised' = NoneStr
  /\ UNCHANGED <<env, scoring, cache_path, samples>>

\* the call is over: control is back with the caller
Return ==
  /\ pc \in {"DONE", "RAISED"}
  /\ pc' = "idle"
  /\ cache_path' = NoneStr
  /\ raised' = NoneStr
  /\ log' = << >>
  /\ placed' = {}
  /\ fetches' = 0
  /\ tiles_to_fetch' = << >>
  /\ open_datasets' = 0
  /\ UNCHANGED <<env, scoring, tif, fields, samples>>

\* sample_at_points that hands the sampled mosaic over: the manager is left
\* with a zeroed one
SampleAtPointsCall_Consuming ==
  /\ pc = "idle"
  /\ \E points \in PointLists :
       samples' = [points |-> points,
                   result |-> SampleAtPoints(embedding_mosaic,
                                             mosaic_transform, points)]
  /\ embedding_mosaic' =
       IF embedding_mosaic = None THEN None
       ELSE Zeros(embedding_mosaic.h, embedding_mosaic.w, embedding_mosaic.c)
  /\ UNCHANGED <<env, scoring, tif, mosaic_transform, mosaic_crs, pc,
                 cache_path, raised, log, placed, fetches, tiles_to_fetch,
                 open_datasets>>

\* sample_at_points(points)
SampleAtPointsCall ==
  /\ pc = "idle"
  /\ \E points \in PointLists :
       samples' = [points |-> points,
                   result |-> SampleAtPoints(embedding_mosaic,
                                             mosaic_transform, points)]
  /\ UNCHANGED <<env, scoring, tif, fields, pc, cache_path, raised, log, placed,
                 fetches, tiles_to_fetch, open_datasets>>

Next ==
  \/ EmbeddingManagerInit
  \/ DownloadEmbeddings
  \/ TryLocal
  \/ TryRemote
  \/ Return
  \/ SampleAtPointsCall

Spec == Init /\ [][Next]_vars

\* ========================================================= prediction grid
\* generate_prediction_grid(bbox, resolution): (grid_points, n_lon, n_lat),
\* the points latitude by latitude
GeneratePredictionGrid(box, resolution) ==
  LET lon_grid == Arange(box[1], box[3], resolution)
      lat_grid == Arange(box[2], box[4], resolution)
  IN [grid_points |->
        [n \in 1 .. Len(lat_grid) * Len(lon_grid) |->
           <<lon_grid[((n - 1) % Len(lon_grid)) + 1],
             lat_grid[((n - 1) \div Len(lon_grid)) + 1]>>],
      n_lon |-> Len(lon_grid),
      n_lat |-> Len(lat_grid)]

\* the bounding boxes and grid spacings generate_prediction_grid is given
GridBoxes == {6, 10, 15} \X {6, 10} \X {20, 26, 40} \X {14, 20}
Resolutions == {4, 5, 10}

\* a manager that has not downloaded anything, over an empty cache
NoFiles == [n \in {TileName(cell[1], cell[2]) : cell \in Universe} |-> NoTile]

ManagerFresh ==
  /\ tif = None
  /\ pc = "idle"
  /\ cache_path = NoneStr
  /\ raised = NoneStr
  /\ log = << >>
  /\ placed = {}
  /\ fetches = 0
  /\ tiles_to_fetch = << >>
  /\ open_datasets = 0
  /\ samples = None

GridInit ==
  /\ files = NoFiles
  /\ year_dir_exists = FALSE
  /\ bbox \in GridBoxes
  /\ embedding_mosaic = None
  /\ mosaic_transform = None
  /\ mosaic_crs = None
  /\ ManagerFresh
  /\ classifier = None
  /\ method = None
  /\ prediction = None
  /\ out = None

\* generate_prediction_grid(bbox, resolution)
GeneratePredictionGridCall ==
  /\ \E resolution \in Resolutions :
       out' = [op |-> "generate_prediction_grid", bbox |-> bbox,
               resolution |-> resolution,
               ret |-> GeneratePredictionGrid(bbox, resolution)]
  /\ UNCHANGED <<env, tif, fields, pc, cache_path, raised, log, placed,
                 fetches, tiles_to_fetch, open_datasets, samples, classifier,
                 method, prediction>>

GridNext == GeneratePredictionGridCall

GridSpec == GridInit /\ [][GridNext]_vars

\* ================================================================= scoring
\* probabilities are float values in tenths; a float is a number or NaN
NaN == [nan |-> TRUE, v |-> 0]
Num(v) == [nan |-> FALSE, v |-> v]
\* np.isnan(x)
IsNan(x) == x.nan
\* x >= t and x < t on floats: both False when x is NaN
GreaterEqual(x, t) == ~x.nan /\ x.v >= t
Less(x, t) == ~x.nan /\ x.v < t

\* the estimators sklearn can end a fit with: each stands for one learned
\* function from an embedding to the probability of the positive class
Seeds == {1, 4}
Unfitted == [fitted |-> FALSE, seed |-> 0]
Fitted(seed) == [fitted |-> TRUE, seed |-> seed]

\* model.predict_proba(X)[:, 1] for one row, in tenths
SklearnPredictProba(model, e) == (model.seed * (e[0] + 1)) % 11

\* ---------------------------------------------- finder: ClassifierMethod
\* ClassifierMethod()
ClassifierMethodInit == [model |-> None, scaler |-> None]

\* the embedding value that stands for float('nan')
NanCode == -1
\* np.isnan(X).any()
HasNan(X) == \E i \in 1 .. Len(X) : \E k \in DOMAIN X[i] : X[i][k] = NanCode

\* ClassifierMethod.fit(positive_embeddings, negative_embeddings); seed is
\* the estimator the fit ends with, fit_calls the number of calls of
\* LogisticRegression.fit made. StandardScaler passes NaN through and
\* LogisticRegression.fit raises ValueError for it, after self._scaler and
\* self._model were assigned
ClassifierMethodFit(self, positive_embeddings, negative_embeddings, seed) ==
  IF Len(positive_embeddings) < 2
  THEN [kind |-> "raise", error |-> "ValueError", self |-> self,
        fit_calls |-> 0]
  ELSE IF Len(negative_embeddings) < 2
  THEN [kind |-> "raise", error |-> "ValueError", self |-> self,
        fit_calls |-> 0]
  ELSE IF HasNan(positive_embeddings \o negative_embeddings)
  THEN [kind |-> "raise", error |-> "ValueError",
        self |-> [model |-> Unfitted, scaler |-> Fitted(seed)],
        fit_calls |-> 1]
  ELSE [kind |-> "return", error |-> NoneStr,
        self |-> [model |-> Fitted(seed), scaler |-> Fitted(seed)],
        fit_calls |-> 1]

\* batch_size: int = 15000
DefaultBatchSize == 15000

\* the batch loop without its last, shorter batch
RECURSIVE PredictBatches_FullOnly(_, _, _, _)
PredictBatches_FullOnly(self, all_embeddings, batch_size, i) ==
  IF i + batch_size > Len(all_embeddings) THEN << >>
  ELSE [k \in 1 .. batch_size |->
          Num(SklearnPredictProba(self.model, all_embeddings[i + k]))]
       \o PredictBatches_FullOnly(self, all_embeddings, batch_size,
                                  i + batch_size)

\* the batch loop of ClassifierMethod.predict from row i (0-based) on
RECURSIVE PredictBatches(_, _, _, _)
PredictBatches(self, all_embeddings, batch_size, i) ==
  IF i >= Len(all_embeddings) THEN << >>
  ELSE LET end == Min({i + batch_size, Len(all_embeddings)})
       IN [k \in 1 .. end - i |->
             Num(SklearnPredictProba(self.model, all_embeddings[i + k]))]
          \o PredictBatches(self, all_embeddings, batch_size, i + batch_size)

\* ClassifierMethod.predict(all_embeddings, batch_size); predict_proba of an
\* estimator that was never fitted raises NotFittedError, in the first batch
ClassifierMethodPredict(self, all_embeddings, batch_size) ==
  IF self.model = None THEN [kind |-> "raise", error |-> "ValueError"]
  ELSE IF ~self.model.fitted /\ Len(all_embeddings) > 0
  THEN [kind |-> "raise", error |-> "NotFittedError"]
  ELSE [kind |-> "return",
        scores |-> PredictBatches(self, all_embeddings, batch_size, 0)]

\* ----------------------------------------------- finder: EmbeddingMosaic
\* EmbeddingMosaic(cache_dir, bbox).load(): the mosaic of the cached tiles
\* the bbox selects, with its transform; no tile is DataUnavailable
EmbeddingMosaicLoad(box, dir_exists, f) ==
  LET r == LoadFromLocalCache(box, dir_exists, f)
  IN IF r.kind = "raise" THEN [kind |-> "raise", error |-> "ValueError"]
     ELSE IF ~r.ret THEN [kind |-> "raise", error |-> "DataUnavailable"]
     ELSE [kind |-> "return", mosaic |-> r.embedding_mosaic,
           transform |-> r.mosaic_transform]

\* coords_to_pixel(lon, lat): floor of the inverse transform
CoordsToPixel(t, lon, lat) == RowCol(t, lon, lat)

\* pixel_to_coords(row, col): the top-left corner of the pixel, each
\* coordinate a fraction <<num, den>>
PixelToCoords(t, row, col) ==
  << <<t.c * t.a[2] + col * t.a[1], t.a[2]>>,
     <<t.f * t.e[2] + row * t.e[1], t.e[2]>> >>

\* sample_at_coords(coords): the embeddings of the coordinates that fall on
\* a pixel, and those coordinates
SampleAtCoords(mosaic, t, coords) ==
  LET valid == SelectSeq(coords, LAMBDA pt : SamplePoint(mosaic, t, pt).valid)
  IN [embeddings |-> [i \in 1 .. Len(valid) |->
                        SamplePoint(mosaic, t, valid[i]).embedding],
      valid_coords |-> valid]

\* get_all_embeddings(): the pixels row by row
GetAllEmbeddings(mosaic) ==
  [n \in 1 .. mosaic.h * mosaic.w |->
     mosaic.px[<<(n - 1) \div mosaic.w, (n - 1) % mosaic.w>>]]

\* np.allclose(emb, 0)
AllClose0(emb) == \A k \in DOMAIN emb : emb[k] = 0

\* ------------------------------------------------------ finder: pipeline
\* the pixel a draw of the generator stands for
DrawnPixel(mosaic, d) == <<d[1] % mosaic.h, d[2] % mosaic.w>>

\* the tests of the loop body: not excluded, and not an empty pixel
Takes(mosaic, exclude_pixels, rc) ==
  rc \notin exclude_pixels /\ ~AllClose0(mosaic.px[rc])

\* the while loop without exclude_pixels.add((row, col))
RECURSIVE BackgroundLoop_NoAdd(_, _, _, _, _, _)
BackgroundLoop_NoAdd(mosaic, n_samples, draws, pixels, exclude_pixels, attempts) ==
  IF Len(pixels) < n_samples /\ attempts < n_samples * 20
  THEN IF \A i \in 1 .. Len(draws) :
            ~Takes(mosaic, exclude_pixels, DrawnPixel(mosaic, draws[i]))
       THEN [pixels |-> pixels, attempts |-> n_samples * 20]
       ELSE LET rc == DrawnPixel(mosaic, draws[(attempts % Len(draws)) + 1])
                take == Takes(mosaic, exclude_pixels, rc)
            IN BackgroundLoop_NoAdd(mosaic, n_samples, draws,
                                    IF take THEN Append(pixels, rc)
                                    ELSE pixels,
                                    exclude_pixels, attempts + 1)
  ELSE [pixels |-> pixels, attempts |-> attempts]

\* the while loop of sample_background; draws is the stream of pairs the
\* generator yields, taken round and round. When no draw of the stream can
\* be taken any more, every remaining attempt fails and the loop ends with
\* attempts = max_attempts.
RECURSIVE BackgroundLoop(_, _, _, _, _, _)
BackgroundLoop(mosaic, n_samples, draws, pixels, exclude_pixels, attempts) ==
  IF Len(pixels) < n_samples /\ attempts < n_samples * 20
  THEN IF \A i \in 1 .. Len(draws) :
            ~Takes(mosaic, exclude_pixels, DrawnPixel(mosaic, draws[i]))
       THEN [pixels |-> pixels, attempts |-> n_samples * 20]
       ELSE LET rc == DrawnPixel(mosaic, draws[(attempts % Len(draws)) + 1])
                take == Takes(mosaic, exclude_pixels, rc)
            IN BackgroundLoop(mosaic, n_samples, draws,
                              IF take THEN Append(pixels, rc) ELSE pixels,
                              IF take THEN exclude_pixels \cup {rc}
                              ELSE exclude_pixels,
                              attempts + 1)
  ELSE [pixels |-> pixels, attempts |-> attempts]

\* sample_background(mosaic, n_samples, exclude_coords)
SampleBackground(mosaic, t, n_samples, exclude_coords, draws) ==
  LET exclude_pixels == {CoordsToPixel(t, exclude_coords[i][1],
                                       exclude_coords[i][2]) :
                           i \in 1 .. Len(exclude_coords)}
      r == BackgroundLoop(mosaic, n_samples, draws, << >>, exclude_pixels, 0)
  IN [embeddings |-> [i \in 1 .. Len(r.pixels) |-> mosaic.px[r.pixels[i]]],
      coords |-> [i \in 1 .. Len(r.pixels) |->
                    PixelToCoords(t, r.pixels[i][1], r.pixels[i][2])],
      attempts |-> r.attempts]

\* scores.reshape(h, w): the flat scores as a map over <<row, col>>
Reshape(scores, h, w) ==
  [h |-> h, w |-> w,
   v |-> [rc \in (0 .. h - 1) \X (0 .. w - 1) |-> scores[rc[1] * w + rc[2] + 1]]]

\* rasterio.transform.xy(transform, col, row): the arguments swapped
Xy_Swapped(t, row, col) ==
  << <<2 * t.c * t.a[2] + (2 * row + 1) * t.a[1], 2 * t.a[2]>>,
     <<2 * t.f * t.e[2] + (2 * col + 1) * t.e[1], 2 * t.e[2]>> >>

\* rasterio.transform.xy(transform, row, col): offset defaults to "center",
\* the centre of the pixel, each coordinate a fraction <<num, den>>
Xy(t, row, col) ==
  << <<2 * t.c * t.a[2] + (2 * col + 1) * t.a[1], 2 * t.a[2]>>,
     <<2 * t.f * t.e[2] + (2 * row + 1) * t.e[1], 2 * t.e[2]>> >>

\* Where with scores > threshold
Where_Strict(scores, threshold) ==
  SelectSeq([n \in 1 .. scores.h * scores.w |->
               <<(n - 1) \div scores.w, (n - 1) % scores.w>>],
            LAMBDA rc : ~scores.v[rc].nan /\ scores.v[rc].v > threshold)

\* np.where(scores >= threshold): the pixels at or above the threshold, row
\* by row
Where(scores, threshold) ==
  SelectSeq([n \in 1 .. scores.h * scores.w |->
               <<(n - 1) \div scores.w, (n - 1) % scores.w>>],
            LAMBDA rc : GreaterEqual(scores.v[rc], threshold))

\* np.random.choice(n, k, replace=False): every sequence of k different
\* indices
RECURSIVE Choice(_, _)
Choice(n, k) ==
  IF k = 0 THEN { << >> }
  ELSE UNION {{Append(c, i) : i \in (1 .. n) \ {c[j] : j \in 1 .. Len(c)}} :
                c \in Choice(n, k - 1)}

\* list.sort(key=probability) is stable: a feature goes behind the features
\* before it that are not larger
InsertFeature(x, sorted) ==
  LET n == Cardinality({i \in 1 .. Len(sorted) :
                          sorted[i].probability.v <= x.probability.v})
  IN SubSeq(sorted, 1, n) \o <<x>> \o SubSeq(sorted, n + 1, Len(sorted))

RECURSIVE SortFeatures(_)
SortFeatures(fs) ==
  IF fs = << >> THEN << >>
  ELSE InsertFeature(fs[Len(fs)], SortFeatures(SubSeq(fs, 1, Len(fs) - 1)))

\* PredictionResult.to_geojson(threshold, max_points); idx is what
\* np.random.choice returns when it is called
ToGeojson(self, threshold, max_points, idx) ==
  LET found == Where(self.scores, threshold)
      kept == IF Len(found) > max_points
              THEN [i \in 1 .. max_points |-> found[idx[i]]]
              ELSE found
      features == [i \in 1 .. Len(kept) |->
                     [probability |-> self.scores.v[kept[i]],
                      coordinates |-> Xy(self.transform, kept[i][1],
                                         kept[i][2])]]
  IN [features |-> SortFeatures(features),
      metadata |-> [n_occurrences |-> self.n_occurrences,
                    n_candidates |-> Len(SortFeatures(features)),
                    threshold |-> threshold,
                    bbox |-> self.bbox]]

\* max_points: int = 5000
DefaultMaxPoints == 5000

\* PredictionResult.save(output_dir, threshold): the raster and the
\* candidates written
Save(self, threshold) ==
  [raster |-> self.scores,
   candidates |-> ToGeojson(self, threshold, DefaultMaxPoints, << >>)]

\* find_candidates, "Create result" and "Save if output directory specified"
CreateResult(result, output_dir) ==
  [kind |-> "return", ret |-> result,
   saved |-> IF output_dir THEN Save(result, 5) ELSE None]

\* find_candidates, step 5 "Train classifier and predict"; seed is the
\* estimator the fit ends with
TrainAndPredict(m, pos, neg, box, output_dir, seed) ==
  LET fit == ClassifierMethodFit(ClassifierMethodInit, pos.embeddings,
                                 neg.embeddings, seed)
  IN IF fit.kind = "raise"
     THEN [kind |-> "raise", error |-> "ValueError", at |-> "fit"]
     ELSE CreateResult(
            [n_occurrences |-> Len(pos.valid_coords),
             n_background |-> Len(neg.embeddings),
             scores |-> Reshape(
                          ClassifierMethodPredict(
                            fit.self, GetAllEmbeddings(m.mosaic),
                            DefaultBatchSize).scores,
                          m.mosaic.h, m.mosaic.w),
             transform |-> m.transform,
             bbox |-> box],
            output_dir)

\* find_candidates, step 4 "Sample background embeddings"; draws is the
\* stream of the background generator
SampleBackgroundStep(m, pos, box, output_dir, negative_ratio, draws, seed) ==
  IF Len(pos.embeddings) < 2
  THEN [kind |-> "raise", error |-> "ValueError", at |-> "positive"]
  ELSE TrainAndPredict(
         m, pos,
         SampleBackground(m.mosaic, m.transform,
                          Len(pos.embeddings) * negative_ratio,
                          pos.valid_coords, draws),
         box, output_dir, seed)

\* find_candidates, step 3 "Sample embeddings at occurrence locations"; m is
\* what EmbeddingMosaic.load ended with
SampleOccurrencesStep(m, occurrences, box, output_dir, negative_ratio, draws, seed) ==
  IF m.kind = "raise"
  THEN [kind |-> "raise", error |-> m.error, at |-> "load"]
  ELSE SampleBackgroundStep(
         m, SampleAtCoords(m.mosaic, m.transform, occurrences),
         box, output_dir, negative_ratio, draws, seed)

\* find_candidates(species_name, bbox, cache_dir, output_dir, negative_ratio)
\* for the occurrences GBIF returns, the draws of the background generator
\* and the estimator the fit ends with
FindCandidates(occurrences, box, dir_exists, f, output_dir, negative_ratio, draws, seed) ==
  IF Len(occurrences) < 2
  THEN [kind |-> "raise", error |-> "ValueError", at |-> "occurrences"]
  ELSE SampleOccurrencesStep(EmbeddingMosaicLoad(box, dir_exists, f),
                             occurrences, box, output_dir, negative_ratio,
                             draws, seed)

\* ------------------------------------------ classifier: SpeciesClassifier
\* the keys of SpeciesClassifier.MODELS
MODELS == {"knn", "rf", "svm", "mlp", "lr"}

\* SpeciesClassifier(model_type)
SpeciesClassifierInit(model_type) ==
  IF model_type \notin MODELS
  THEN [kind |-> "raise", error |-> "ValueError"]
  ELSE [kind |-> "return",
        self |-> [model_type |-> model_type, model |-> Unfitted,
                  is_trained |-> FALSE, train_stats |-> << >>]]

\* SpeciesClassifier.load(path) of a file save() wrote
SpeciesClassifierLoad(data) ==
  [model_type |-> data.model_type, model |-> data.model,
   is_trained |-> TRUE, train_stats |-> data.train_stats]

\* SpeciesClassifier.predict_proba(X)
PredictProba(self, X) ==
  IF ~self.is_trained THEN [kind |-> "raise", error |-> "RuntimeError"]
  ELSE [kind |-> "return",
        ret |-> [i \in 1 .. Len(X) |-> SklearnPredictProba(self.model, X[i])]]

\* SpeciesClassifier.save(path): the data dumped at path
SpeciesClassifierSave(self) ==
  IF ~self.is_trained THEN [kind |-> "raise", error |-> "RuntimeError"]
  ELSE [kind |-> "return",
        data |-> [model |-> self.model, model_type |-> self.model_type,
                  train_stats |-> self.train_stats]]

\* ------------------------------------------------- classifier: predict
\* the rows of a masked selection, embeddings[valid_mask]
Masked(embeddings, valid_mask) ==
  LET keep == SelectSeq([i \in 1 .. Len(valid_mask) |-> i],
                        LAMBDA i : valid_mask[i])
  IN [k \in 1 .. Len(keep) |-> embeddings[keep[k]]]

\* probabilities = zeros; [~valid_mask] = nan; [valid_mask] = the
\* predictions, in the order of the valid points
Probabilities(valid_mask, predicted) ==
  [i \in 1 .. Len(valid_mask) |->
     IF valid_mask[i]
     THEN Num(predicted[Cardinality({j \in 1 .. i : valid_mask[j]})])
     ELSE NaN]

\* the probabilities of the grid points, shared by
\* generate_candidate_locations and generate_probability_raster:
\* RuntimeError from sample_at_points or from predict_proba
GridProbabilities(self, mosaic, t, grid_points) ==
  LET sampled == SampleAtPoints(mosaic, t, grid_points)
      any == \E i \in 1 .. Len(grid_points) : sampled.valid_mask[i]
      predicted == PredictProba(self, Masked(sampled.embeddings,
                                             sampled.valid_mask))
  IN IF sampled.kind = "raise"
     THEN [kind |-> "raise", error |-> "RuntimeError"]
     ELSE IF any /\ predicted.kind = "raise"
     THEN [kind |-> "raise", error |-> "RuntimeError"]
     ELSE [kind |-> "return", valid_mask |-> sampled.valid_mask,
           probabilities |->
             IF any THEN Probabilities(sampled.valid_mask, predicted.ret)
             ELSE [i \in 1 .. Len(grid_points) |-> NaN]]

\* generate_candidate_locations(classifier, embedding_manager,
\* probability_threshold, resolution)
GenerateCandidateLocations(self, box, mosaic, t, probability_threshold, resolution) ==
  LET grid == GeneratePredictionGrid(box, resolution)
      p == GridProbabilities(self, mosaic, t, grid.grid_points)
      keep == SelectSeq([i \in 1 .. Len(grid.grid_points) |-> i],
                        LAMBDA i : ~(IsNan(p.probabilities[i]) \/
                                     Less(p.probabilities[i],
                                          probability_threshold)))
  IN IF p.kind = "raise" THEN p
     ELSE [kind |-> "return",
           probabilities |-> p.probabilities,
           features |->
             [k \in 1 .. Len(keep) |->
                [probability |-> p.probabilities[keep[k]],
                 model_type |-> self.model_type,
                 coordinates |-> grid.grid_points[keep[k]]]],
           metadata |->
             [bbox |-> box, resolution |-> resolution,
              probability_threshold |-> probability_threshold,
              total_grid_points |-> Len(grid.grid_points),
              valid_grid_points |->
                Cardinality({i \in 1 .. Len(grid.grid_points) :
                               p.valid_mask[i]}),
              n_candidates |-> Len(keep)]]

\* generate_probability_raster(classifier, embedding_manager, resolution):
\* prob_grid[lat index][lon index]
GenerateProbabilityRaster(self, box, mosaic, t, resolution) ==
  LET grid == GeneratePredictionGrid(box, resolution)
      p == GridProbabilities(self, mosaic, t, grid.grid_points)
  IN IF p.kind = "raise" THEN p
     ELSE [kind |-> "return",
           valid_mask |-> p.valid_mask,
           prob_grid |->
             [j \in 1 .. grid.n_lat |->
                [i \in 1 .. grid.n_lon |->
                   p.probabilities[(j - 1) * grid.n_lon + i]]],
           metadata |-> [bbox |-> box, resolution |-> resolution,
                         shape |-> <<grid.n_lat, grid.n_lon>>]]

\* ------------------------------------------------------ scoring: the runs
\* the cache directories scored: two tiles side by side, two tiles on a
\* diagonal (two cells of their mosaic have no tile), and one tile that
\* covers the east of the wider bbox only
Whole == [data |-> <<2, 2, 2>>, scales |-> <<2, 2>>]
ScoreFiles ==
  { [n \in DOMAIN NoFiles |->
       IF n \in {TileName(5, 5), TileName(15, 5)} THEN Whole ELSE NoTile],
    [n \in DOMAIN NoFiles |->
       IF n \in {TileName(5, 5), TileName(15, 15)} THEN Whole ELSE NoTile],
    [n \in DOMAIN NoFiles |->
       IF n = TileName(15, 5) THEN Whole ELSE NoTile] }

\* probability thresholds, in tenths
Thresholds == {5, 7}
\* max_points arguments: one that forces the subsample, and the default
MaxPoints == 2
MaxPointsArgs == {MaxPoints, DefaultMaxPoints}
\* negative_ratio arguments: 1 and NEGATIVE_RATIO
NEGATIVE_RATIO == 5
NegativeRatios == {1, NEGATIVE_RATIO}

\* the occurrences GBIF returns for the bbox
OccurrenceLists ==
  { << <<7, 7>> >>,
    << <<7, 7>>, <<12, 7>> >>,
    << <<7, 7>>, <<40, 40>> >>,
    << <<7, 7>>, <<12, 12>>, <<17, 7>>, <<22, 12>> >> }

\* streams of (row, col) draws of the background generator
DrawStreams ==
  { << <<0, 0>> >>,
    << <<0, 0>>, <<1, 1>>, <<0, 3>>, <<1, 2>>, <<0, 1>> >>,
    << <<1, 0>>, <<0, 1>>, <<1, 3>> >> }

\* the classifiers handed to the scoring functions: a new one, and trained
\* ones read back with SpeciesClassifier.load
Classifiers ==
  {SpeciesClassifierInit("rf").self} \cup
  {SpeciesClassifierLoad([model_type |-> "rf", model |-> Fitted(seed),
                          train_stats |-> << >>]) : seed \in Seeds}

\* a manager whose download_embeddings has returned with the mosaic of the
\* local cache, and a classifier
ScoreInit ==
  /\ files \in ScoreFiles
  /\ year_dir_exists = TRUE
  /\ bbox \in BBoxes
  /\ LoadFromLocalCache(bbox, year_dir_exists, files).kind = "return"
  /\ LoadFromLocalCache(bbox, year_dir_exists, files).ret
  /\ embedding_mosaic =
       LoadFromLocalCache(bbox, year_dir_exists, files).embedding_mosaic
  /\ mosaic_transform =
       LoadFromLocalCache(bbox, year_dir_exists, files).mosaic_transform
  /\ mosaic_crs = LoadFromLocalCache(bbox, year_dir_exists, files).mosaic_crs
  /\ ManagerFresh
  /\ classifier \in Classifiers
  /\ method = None
  /\ prediction = None
  /\ out = None

\* a run of the program makes one scoring call: generate_candidate_locations
\* or generate_probability_raster with the manager's mosaic (sparse), or
\* find_candidates and to_geojson on what it returned (dense); the manager's
\* sample_at_points can be called before and after it

\* generate_candidate_locations(classifier, embedding_manager, ...)
GenerateCandidateLocationsCall ==
  /\ out = None /\ prediction = None
  /\ \E probability_threshold \in Thresholds, resolution \in Resolutions :
       out' = [op |-> "generate_candidate_locations",
               probability_threshold |-> probability_threshold,
               resolution |-> resolution,
               res |-> GenerateCandidateLocations(
                         classifier, bbox, embedding_mosaic, mosaic_transform,
                         probability_threshold, resolution)]
  /\ UNCHANGED <<env, tif, fields, pc, cache_path, raised, log, placed,
                 fetches, tiles_to_fetch, open_datasets, samples, classifier,
                 method, prediction>>

\* generate_probability_raster(classifier, embedding_manager, resolution)
GenerateProbabilityRasterCall ==
  /\ out = None /\ prediction = None
  /\ \E resolution \in Resolutions :
       out' = [op |-> "generate_probability_raster",
               resolution |-> resolution,
               res |-> GenerateProbabilityRaster(
                         classifier, bbox, embedding_mosaic, mosaic_transform,
                         resolution)]
  /\ UNCHANGED <<env, tif, fields, pc, cache_path, raised, log, placed,
                 fetches, tiles_to_fetch, open_datasets, samples, classifier,
                 method, prediction>>

\* find_candidates(species_name, bbox, cache_dir, output_dir, negative_ratio)
FindCandidatesCall ==
  /\ out = None /\ prediction = None
  /\ \E occurrences \in OccurrenceLists, output_dir \in BOOLEAN,
        negative_ratio \in NegativeRatios, draws \in DrawStreams,
        seed \in Seeds :
       prediction' = FindCandidates(occurrences, bbox, year_dir_exists, files,
                                    output_dir, negative_ratio, draws, seed)
  /\ UNCHANGED <<env, tif, fields, pc, cache_path, raised, log, placed,
                 fetches, tiles_to_fetch, open_datasets, samples, classifier,
                 method, out>>

\* result.to_geojson(threshold, max_points)
ToGeojsonCall ==
  /\ out = None /\ prediction # None
  /\ prediction.kind = "return"
  /\ \E threshold \in Thresholds, max_points \in MaxPointsArgs :
       LET n == Len(Where(prediction.ret.scores, threshold))
       IN \E idx \in IF n > max_points THEN Choice(n, max_points)
                      ELSE { << >> } :
            out' = [op |-> "to_geojson", threshold |-> threshold,
                    max_points |-> max_points,
                    res |-> ToGeojson(prediction.ret, threshold, max_points,
                                      idx)]
  /\ UNCHANGED <<env, tif, fields, pc, cache_path, raised, log, placed,
                 fetches, tiles_to_fetch, open_datasets, samples, classifier,
                 method, prediction>>

ScoreNext ==
  \/ GenerateCandidateLocationsCall
  \/ GenerateProbabilityRasterCall
  \/ FindCandidatesCall
  \/ ToGeojsonCall
  \/ SampleAtPointsCall

ScoreSpec == ScoreInit /\ [][ScoreNext]_vars

\* ================================================================ training
\* training sets are given by their sizes: n_pos species rows (label 1) and
\* n_neg background rows (label 0)
MaxPositive == 3
MaxNegative == 8
PosCounts == 0 .. MaxPositive
NegCounts == 0 .. MaxNegative

\* embeddings of one channel
Rows(n) == [i \in 1 .. n |-> (0 :> i)]
\* y = [1] * n_pos + [0] * n_neg
Labels(n_pos, n_neg) ==
  [i \in 1 .. n_pos + n_neg |-> IF i <= n_pos THEN 1 ELSE 0]

\* np.bincount(y) and np.unique(y)
ClassCounts(y) == [c \in {0, 1} |-> Cardinality({i \in DOMAIN y : y[i] = c})]
Classes(class_counts) == {c \in {0, 1} : class_counts[c] > 0}

\* test_size: float = 0.2, in tenths, and cv_folds: int = 5
test_size == 2
cv_folds == 5

\* sklearn's n_test = ceil(test_size * n_samples); binary64 gives the exact
\* ceiling for every n_samples up to 20
NTest(n_samples) == CeilDiv(test_size * n_samples, 10)

\* sklearn's _approximate_mode for two classes: the floor of the
\* proportional share, the draw left over to the class with the larger
\* remainder, ties broken at random
ApproximateMode(class_counts, n_draws) ==
  LET n == class_counts[0] + class_counts[1]
      floored == [c \in {0, 1} |-> (n_draws * class_counts[c]) \div n]
      remainder == [c \in {0, 1} |-> (n_draws * class_counts[c]) % n]
      top == {c \in {0, 1} : \A d \in {0, 1} : remainder[c] >= remainder[d]}
  IN IF floored[0] + floored[1] = n_draws THEN {floored}
     ELSE {[c \in {0, 1} |-> floored[c] + (IF c = winner THEN 1 ELSE 0)] :
             winner \in top}

\* train_test_split(X, y, test_size, random_state, stratify=y): ValueError
\* for an empty train set, a class of one member, or fewer train or test
\* rows than classes; else the class counts of y_train and y_test
TrainTestSplit(y) ==
  LET class_counts == ClassCounts(y)
      n_classes == Cardinality(Classes(class_counts))
  IN IF Len(y) - NTest(Len(y)) = 0
     THEN {[kind |-> "raise", error |-> "ValueError"]}
     ELSE IF \E c \in Classes(class_counts) : class_counts[c] < 2
     THEN {[kind |-> "raise", error |-> "ValueError"]}
     ELSE IF Len(y) - NTest(Len(y)) < n_classes \/ NTest(Len(y)) < n_classes
     THEN {[kind |-> "raise", error |-> "ValueError"]}
     ELSE {[kind |-> "return", error |-> NoneStr, y_train |-> a,
            y_test |-> [c \in {0, 1} |-> class_counts[c] - a[c]]] :
             a \in ApproximateMode(class_counts, Len(y) - NTest(Len(y)))}

\* cross_val_score(self.model, X_train, y_train, cv=cv_folds): the
\* stratified folds need cv_folds rows and a class of cv_folds members
\* (ValueError before any fit); else one fit per fold
CrossValScore(y_train) ==
  IF y_train[0] + y_train[1] < cv_folds
  THEN [kind |-> "raise", error |-> "ValueError", fit_calls |-> 0]
  ELSE IF \A c \in Classes(y_train) : cv_folds > y_train[c]
  THEN [kind |-> "raise", error |-> "ValueError", fit_calls |-> 0]
  ELSE [kind |-> "return", error |-> NoneStr, fit_calls |-> cv_folds]

\* the estimator a fit on rows of the given classes ends with
FittedOn(seed, classes) ==
  [fitted |-> TRUE, seed |-> seed, classes |-> classes]

\* model.predict(X) for one row
SklearnPredict(model, e) ==
  IF Cardinality(model.classes) = 1
  THEN CHOOSE c \in model.classes : TRUE
  ELSE IF SklearnPredictProba(model, e) >= 5 THEN 1 ELSE 0

\* train, "Evaluate": classification_report(y_test, y_pred, target_names of
\* two names) raises ValueError unless y_test and y_pred hold two classes
\* between them; y_pred is the set of labels the model gives the test rows
Evaluate(self, y_train, y_test, y_pred, fit_calls) ==
  IF Cardinality(Classes(y_test) \cup y_pred) # 2
  THEN [kind |-> "raise", error |-> "ValueError",
        at |-> "classification_report", self |-> self,
        fit_calls |-> fit_calls]
  ELSE [kind |-> "return", error |-> NoneStr, at |-> NoneStr,
        self |-> [self EXCEPT !.train_stats =
                    [n_train |-> y_train[0] + y_train[1],
                     n_test |-> y_test[0] + y_test[1],
                     n_positive_train |-> y_train[1],
                     n_negative_train |-> y_train[0]]],
        fit_calls |-> fit_calls]

\* train, "Cross-validation" and "Train on full training set": fit is
\* called on a clone per fold and once on self.model, then is_trained is set
FitAndEvaluate(self, y_train, y_test) ==
  IF CrossValScore(y_train).kind = "raise"
  THEN {[kind |-> "raise", error |-> "ValueError", at |-> "cross_val_score",
         self |-> self, fit_calls |-> 0]}
  ELSE {Evaluate([self EXCEPT !.model = FittedOn(sp[1], Classes(y_train)),
                              !.is_trained = TRUE],
                 y_train, y_test, sp[2], cv_folds + 1) :
          sp \in Seeds \X ((SUBSET Classes(y_train)) \ {{}})}

\* SpeciesClassifier.train(X, y): every way the call can end
Train(self, y) ==
  UNION {IF split.kind = "raise"
         THEN {[kind |-> "raise", error |-> "ValueError",
                at |-> "train_test_split", self |-> self, fit_calls |-> 0]}
         ELSE FitAndEvaluate(self, split.y_train, split.y_test) :
           split \in TrainTestSplit(y)}

\* SpeciesClassifier.predict(X)
Predict(self, X) ==
  IF ~self.is_trained THEN [kind |-> "raise", error |-> "RuntimeError"]
  ELSE [kind |-> "return", error |-> NoneStr,
        ret |-> [i \in 1 .. Len(X) |-> SklearnPredict(self.model, X[i])]]

\* a new ClassifierMethod and a new SpeciesClassifier of the default type
TrainInit ==
  /\ files = NoFiles
  /\ year_dir_exists = FALSE
  /\ bbox \in BBoxes
  /\ embedding_mosaic = None
  /\ mosaic_transform = None
  /\ mosaic_crs = None
  /\ ManagerFresh
  /\ classifier = SpeciesClassifierInit("rf").self
  /\ method = ClassifierMethodInit
  /\ prediction = None
  /\ out = None

\* a run of the program makes one training call, on either object, and then
\* asks the object it trained for predictions

\* method.fit(positive_embeddings, negative_embeddings)
ClassifierMethodFitCall ==
  /\ out = None
  /\ \E n_pos \in PosCounts, n_neg \in NegCounts, seed \in Seeds :
       /\ method' = ClassifierMethodFit(method, Rows(n_pos), Rows(n_neg),
                                        seed).self
       /\ out' = [op |-> "fit", n_pos |-> n_pos, n_neg |-> n_neg,
                  kind |-> ClassifierMethodFit(method, Rows(n_pos),
                                               Rows(n_neg), seed).kind,
                  error |-> ClassifierMethodFit(method, Rows(n_pos),
                                                Rows(n_neg), seed).error,
                  at |-> NoneStr,
                  fit_calls |-> ClassifierMethodFit(
                                  method, Rows(n_pos), Rows(n_neg),
                                  seed).fit_calls]
  /\ UNCHANGED <<env, tif, fields, pc, cache_path, raised, log, placed,
                 fetches, tiles_to_fetch, open_datasets, samples, classifier,
                 prediction>>

\* classifier.train(X, y)
SpeciesClassifierTrainCall ==
  /\ out = None
  /\ \E n_pos \in PosCounts, n_neg \in NegCounts :
       \E r \in Train(classifier, Labels(n_pos, n_neg)) :
         /\ classifier' = r.self
         /\ out' = [op |-> "train", n_pos |-> n_pos, n_neg |-> n_neg,
                    kind |-> r.kind, error |-> r.error, at |-> r.at,
                    fit_calls |-> r.fit_calls]
  /\ UNCHANGED <<env, tif, fields, pc, cache_path, raised, log, placed,
                 fetches, tiles_to_fetch, open_datasets, samples, method,
                 prediction>>

\* method.predict(all_embeddings)
ClassifierMethodPredictCall ==
  /\ out # None /\ out.op = "fit"
  /\ prediction = None
  /\ prediction' = ClassifierMethodPredict(method, Rows(2), DefaultBatchSize)
  /\ UNCHANGED <<env, tif, fields, pc, cache_path, raised, log, placed,
                 fetches, tiles_to_fetch, open_datasets, samples, classifier,
                 method, out>>

\* classifier.predict(X)
SpeciesClassifierPredictCall ==
  /\ out # None /\ out.op = "train"
  /\ prediction = None
  /\ prediction' = Predict(classifier, Rows(2))
  /\ UNCHANGED <<env, tif, fields, pc, cache_path, raised, log, placed,
                 fetches, tiles_to_fetch, open_datasets, samples, classifier,
                 method, out>>

TrainNext ==
  \/ ClassifierMethodFitCall
  \/ SpeciesClassifierTrainCall
  \/ ClassifierMethodPredictCall
  \/ SpeciesClassifierPredictCall

TrainSpec == TrainInit /\ [][TrainNext]_vars

\* ====================================================== batched prediction
\* the numbers of embeddings and the batch sizes predict is called with
MaxRows == 7
MaxBatch == 8
RowCounts == 0 .. MaxRows
BatchSizes == (1 .. MaxBatch) \cup {DefaultBatchSize}

\* range(0, n_samples, batch_size) from i on, with end = min(i + batch_size,
\* n_samples): the slices scores[i:end] the loop assigns, in order
RECURSIVE BatchSlices(_, _, _)
BatchSlices(n_samples, batch_size, i) ==
  IF i >= n_samples THEN << >>
  ELSE <<[i |-> i, end |-> Min({i + batch_size, n_samples})]>>
       \o BatchSlices(n_samples, batch_size, i + batch_size)

\* a ClassifierMethod whose fit has returned
PredictInit ==
  /\ files = NoFiles
  /\ year_dir_exists = FALSE
  /\ bbox \in BBoxes
  /\ embedding_mosaic = None
  /\ mosaic_transform = None
  /\ mosaic_crs = None
  /\ ManagerFresh
  /\ classifier = None
  /\ method \in {ClassifierMethodFit(ClassifierMethodInit, Rows(2), Rows(2),
                                     seed).self : seed \in Seeds}
  /\ prediction = None
  /\ out = None

\* method.predict(all_embeddings, batch_size)
ClassifierMethodPredictBatchedCall ==
  /\ \E n \in RowCounts, batch_size \in BatchSizes :
       out' = [op |-> "predict", n |-> n, batch_size |-> batch_size,
               slices |-> BatchSlices(n, batch_size, 0),
               res |-> ClassifierMethodPredict(method, Rows(n), batch_size)]
  /\ UNCHANGED <<env, tif, fields, pc, cache_path, raised, log, placed,
                 fetches, tiles_to_fetch, open_datasets, samples, classifier,
                 method, prediction>>

PredictNext == ClassifierMethodPredictBatchedCall

PredictSpec == PredictInit /\ [][PredictNext]_vars

\* ==================================================== classifier lifecycle
\* embeddings of one channel whose first row holds a NaN
RowsNan(n) == [i \in 1 .. n |-> (0 :> IF i = 1 THEN NanCode ELSE i)]

\* the embedding arrays fit is called with, and the numbers of rows asked
\* predictions for
FitInputs == {Rows(1), Rows(2), RowsNan(2)}
PredictCounts == {0, 2}

\* the contents of the files save() can have written
SavedData ==
  {[model_type |-> "rf", model |-> FittedOn(seed, {0, 1}),
    train_stats |-> << >>] : seed \in Seeds}

\* method.fit(positive_embeddings, negative_embeddings), at any time
FitCall ==
  /\ \E pos \in FitInputs, neg \in FitInputs, seed \in Seeds :
       LET r == ClassifierMethodFit(method, pos, neg, seed)
       IN /\ method' = r.self
          /\ out' = [op |-> "fit", kind |-> r.kind, at |-> NoneStr]
  /\ UNCHANGED <<env, tif, fields, pc, cache_path, raised, log, placed,
                 fetches, tiles_to_fetch, open_datasets, samples, classifier,
                 prediction>>

\* method.predict(all_embeddings), at any time
MethodPredictCall ==
  /\ \E n \in PredictCounts :
       out' = [op |-> "method.predict",
               kind |-> ClassifierMethodPredict(method, Rows(n),
                                                DefaultBatchSize).kind,
               at |-> NoneStr]
  /\ UNCHANGED <<env, tif, fields, pc, cache_path, raised, log, placed,
                 fetches, tiles_to_fetch, open_datasets, samples, classifier,
                 method, prediction>>

\* classifier.train(X, y), at any time
TrainCall ==
  /\ \E n_pos \in PosCounts, n_neg \in NegCounts :
       \E r \in Train(classifier, Labels(n_pos, n_neg)) :
         /\ classifier' = r.self
         /\ out' = [op |-> "train", kind |-> r.kind, at |-> r.at]
  /\ UNCHANGED <<env, tif, fields, pc, cache_path, raised, log, placed,
                 fetches, tiles_to_fetch, open_datasets, samples, method,
                 prediction>>

\* classifier.predict(X), at any time
PredictCall ==
  /\ \E n \in PredictCounts :
       out' = [op |-> "predict", kind |-> Predict(classifier, Rows(n)).kind,
               at |-> NoneStr]
  /\ UNCHANGED <<env, tif, fields, pc, cache_path, raised, log, placed,
                 fetches, tiles_to_fetch, open_datasets, samples, classifier,
                 method, prediction>>

\* classifier.predict_proba(X), at any time
PredictProbaCall ==
  /\ \E n \in PredictCounts :
       out' = [op |-> "predict_proba",
               kind |-> PredictProba(classifier, Rows(n)).kind,
               at |-> NoneStr]
  /\ UNCHANGED <<env, tif, fields, pc, cache_path, raised, log, placed,
                 fetches, tiles_to_fetch, open_datasets, samples, classifier,
                 method, prediction>>

\* classifier.save(path), at any time
SaveCall ==
  /\ out' = [op |-> "save", kind |-> SpeciesClassifierSave(classifier).kind,
             at |-> NoneStr]
  /\ UNCHANGED <<env, tif, fields, pc, cache_path, raised, log, placed,
                 fetches, tiles_to_fetch, open_datasets, samples, classifier,
                 method, prediction>>

\* classifier = SpeciesClassifier.load(path)
LoadCall ==
  /\ \E data \in SavedData : classifier' = SpeciesClassifierLoad(data)
  /\ out' = [op |-> "load", kind |-> "return", at |-> NoneStr]
  /\ UNCHANGED <<env, tif, fields, pc, cache_path, raised, log, placed,
                 fetches, tiles_to_fetch, open_datasets, samples, method,
                 prediction>>

LifecycleNext ==
  \/ FitCall
  \/ MethodPredictCall
  \/ TrainCall
  \/ PredictCall
  \/ PredictProbaCall
  \/ SaveCall
  \/ LoadCall

LifecycleSpec == TrainInit /\ [][LifecycleNext]_vars

\* ===================================================== background sampling
\* the numbers of background samples asked for, and the coordinates excluded
MaxSamples == 3
SampleCounts == 0 .. MaxSamples
ExcludeLists ==
  { << >>,
    << <<7, 7>> >>,
    << <<7, 7>>, <<12, 7>>, <<22, 12>>, <<40, 40>> >> }

\* sample_background(mosaic, n_samples, exclude_coords) on a loaded mosaic
SampleBackgroundCall ==
  /\ \E n_samples \in SampleCounts, exclude_coords \in ExcludeLists,
        draws \in DrawStreams :
       out' = [op |-> "sample_background", n_samples |-> n_samples,
               exclude_coords |-> exclude_coords, draws |-> draws,
               res |-> SampleBackground(embedding_mosaic, mosaic_transform,
                                        n_samples, exclude_coords, draws)]
  /\ UNCHANGED <<env, tif, fields, pc, cache_path, raised, log, placed,
                 fetches, tiles_to_fetch, open_datasets, samples, classifier,
                 method, prediction>>

BackgroundNext == SampleBackgroundCall

BackgroundSpec == ScoreInit /\ [][BackgroundNext]_vars

\* ============================================================== properties
\* the grid cells (SW corners) around the modelled cache directory
AllCells == {5, 15, 25, 35} \X {5, 15, 25}

\* the cell [lon, lon + step) x [lat, lat + step) meets the bbox
CellMeets(cell, box) ==
  /\ cell[1] <= box[3] /\ cell[1] + step > box[1]
  /\ cell[2] <= box[4] /\ cell[2] + step > box[2]

\* the bbox lies inside the cell
BoxInsideCell(box, cell) ==
  /\ cell[1] <= box[1] /\ box[3] < cell[1] + step
  /\ cell[2] <= box[2] /\ box[4] < cell[2] + step

\* the point lies inside the cell
PointInCell(pt, cell) ==
  /\ cell[1] <= pt[1] /\ pt[1] < cell[1] + step
  /\ cell[2] <= pt[2] /\ pt[2] < cell[2] + step

\* the points the sampling properties are evaluated at: two in every cell
\* of the grid along each axis, and points beyond it
TestPoints == {3, 7, 12, 17, 20, 27, 30, 37} \X {3, 7, 12, 17, 20, 27}

\* the cells the load loop looks for
EnumeratedCells(box) ==
  {<<EnumerateLons(box)[i], EnumerateLats(box)[j]>> :
     i \in 1 .. Len(EnumerateLons(box)), j \in 1 .. Len(EnumerateLats(box))}

\* the running call has been through the local cache attempt
LocalAttempted == Len(log) >= 2 /\ log[1] = "TRY_LOCAL"
\* the running call ended with the mosaic stitched from the local cache
LocalDone == pc = "DONE" /\ LocalAttempted /\ log[2] = "HIT"

ZeroVector(n) == [k \in 0 .. n - 1 |-> 0]

\* --------------------------------------------------------------------- C1
DonePaths(cp) ==
  IF cp = NoneStr
  THEN { <<"TRY_LOCAL", "HIT">>,
         <<"TRY_LOCAL", "MISS", "TRY_REMOTE", "SUCCESS">> }
  ELSE { <<"TIF_HIT">>,
         <<"TRY_LOCAL", "HIT", "CACHE_WRITE">>,
         <<"TRY_LOCAL", "MISS", "TRY_REMOTE", "SUCCESS", "CACHE_WRITE">> }

RaisedPaths ==
  { <<<<"TRY_LOCAL", "ERROR">>, "ValueError">>,
    <<<<"TRY_LOCAL", "MISS", "TRY_REMOTE", "EMPTY">>, "DataUnavailable">>,
    <<<<"TRY_LOCAL", "MISS", "TRY_REMOTE", "FETCH_FAILED">>, "FetchFailure">>,
    <<<<"TRY_LOCAL", "HIT", "WRITE_FAILED">>, "OSError">>,
    <<<<"TRY_LOCAL", "MISS", "TRY_REMOTE", "SUCCESS", "WRITE_FAILED">>,
      "OSError">> }

\* C1 as stated: every call is TRY_LOCAL -> (hit: DONE) | (miss: TRY_REMOTE ->
\* (success: DONE with the cache artifact written) | DataUnavailable), and
\* no other terminal outcome is reachable.
C1_TwoStatePipelineOnly ==
  /\ pc = "DONE" =>
       log \in { <<"TRY_LOCAL", "HIT">>, <<"TRY_LOCAL", "HIT", "CACHE_WRITE">>,
                 <<"TRY_LOCAL", "MISS", "TRY_REMOTE", "SUCCESS", "CACHE_WRITE">> }
  /\ pc = "RAISED" =>
       /\ raised = "DataUnavailable"
       /\ log = <<"TRY_LOCAL", "MISS", "TRY_REMOTE", "EMPTY">>

\* C1 (amended): an existing cache artifact ends the call in DONE before any
\* tile source is tried; otherwise the call is TRY_LOCAL -> (hit: DONE) |
\* (miss: TRY_REMOTE -> (success: DONE) | (zero tiles: DataUnavailable)); the
\* remote fetcher is consulted only after the local cache missed; the cache
\* artifact is written on DONE exactly when a cache path was given; the only
\* other terminal outcomes are a propagated array error of the local load, a
\* propagated fetch failure and a propagated failure to write the artifact.
C1_Pipeline ==
  /\ pc = "TRY_REMOTE" =>
       log = <<"TRY_LOCAL", "MISS", "TRY_REMOTE">> /\ fetches = 0
  /\ fetches > 0 =>
       /\ fetches = 1
       /\ Len(log) >= 4
       /\ SubSeq(log, 1, 3) = <<"TRY_LOCAL", "MISS", "TRY_REMOTE">>
  /\ pc = "DONE" =>
       /\ log \in DonePaths(cache_path)
       /\ raised = NoneStr
       /\ embedding_mosaic # None
       /\ log[Len(log)] = "CACHE_WRITE" =>
            tif = SaveToTif(embedding_mosaic, mosaic_transform, mosaic_crs)
  /\ pc = "RAISED" =>
       /\ <<log, raised>> \in RaisedPaths
       /\ log[Len(log)] = "WRITE_FAILED" => cache_path # NoneStr
  /\ pc \in {"idle", "TRY_LOCAL", "TRY_REMOTE", "DONE", "RAISED"}

\* C1 witness: a local miss followed by a successful remote fetch that wrote
\* the cache artifact
C1_Witness ==
  /\ pc = "DONE"
  /\ log = <<"TRY_LOCAL", "MISS", "TRY_REMOTE", "SUCCESS", "CACHE_WRITE">>
  /\ tif # None

\* --------------------------------------------------------------------- C2
\* C2: after a local-cache load, every point inside a cell that meets the
\* bbox and has no loaded tile samples as valid with an all-zero embedding.
C2_MissingCellsSampleAsZero ==
  LocalDone =>
    \A cell \in AllCells :
      (CellMeets(cell, bbox) /\ ~TileLoadable(files, cell[1], cell[2])) =>
        \A pt \in TestPoints :
          PointInCell(pt, cell) =>
            SamplePoint(embedding_mosaic, mosaic_transform, pt) =
              [embedding |-> ZeroVector(embedding_mosaic.c), valid |-> TRUE]

\* --------------------------------------------------------------------- C3
\* C3: when the bbox lies inside the cell of one cached tile, that tile is
\* the only one loaded (only cells meeting the bbox are selected) and the
\* mosaic has exactly its shape.
C3_SingleTileShape ==
  LocalDone =>
    \A cell \in AllCells :
      (BoxInsideCell(bbox, cell) /\ TileLoadable(files, cell[1], cell[2])) =>
        LET t == LoadTile(files, cell[1], cell[2]).emb
        IN /\ placed = {[src |-> "local", lon |-> cell[1], lat |-> cell[2]]}
           /\ <<embedding_mosaic.h, embedding_mosaic.w, embedding_mosaic.c>> =
                <<t.h, t.w, t.c>>

\* --------------------------------------------------------------------- C4
\* the tile's data file exists but its scale file is absent or of another
\* shape
CorruptTile(f, cell) ==
  /\ NpyExists(f, cell[1], cell[2])
  /\ \/ ~ScalesExists(f, cell[1], cell[2])
     \/ f[TileName(cell[1], cell[2])].scales #
          <<f[TileName(cell[1], cell[2])].data[1],
            f[TileName(cell[1], cell[2])].data[2]>>

\* C4: once the local cache was read, a looked-for tile whose data file
\* exists without a matching scale file has made the load fail; it is never
\* skipped.
C4_CorruptTileIsFatal ==
  (LocalAttempted /\ \E cell \in EnumeratedCells(bbox) : CorruptTile(files, cell))
    => (log[2] = "ERROR" /\ placed = {})

\* --------------------------------------------------------------------- C5
\* two tiles that the load loop loads differ in channel count
ChannelMismatch(f, box) ==
  \E c1 \in EnumeratedCells(box), c2 \in EnumeratedCells(box) :
    /\ TileLoadable(f, c1[1], c1[2]) /\ TileLoadable(f, c2[1], c2[2])
    /\ f[TileName(c1[1], c1[2])].data[3] # f[TileName(c2[1], c2[2])].data[3]

\* C5: when two loaded tiles differ in channel count the local load ends in
\* the fatal array error, whatever the arrangement; no mosaic and no cache
\* artifact ever exists for such a cache.
C5_ChannelMismatchFatal ==
  ChannelMismatch(files, bbox) =>
    /\ embedding_mosaic = None
    /\ tif = None
    /\ placed = {}
    /\ LocalAttempted =>
         (pc = "RAISED" /\ raised = "ValueError" /\ log = <<"TRY_LOCAL", "ERROR">>)

\* C5 witness: the load raised for tiles that differ in channel count only
C5_Witness ==
  /\ pc = "RAISED"
  /\ ChannelMismatch(files, bbox)
  /\ \A cell \in EnumeratedCells(bbox) : ~CorruptTile(files, cell)
  /\ \E cell \in EnumeratedCells(bbox) :
       CellMeets(cell, bbox) /\ ~TileLoadable(files, cell[1], cell[2])

\* --------------------------------------------------------------------- C6
\* C6: when the local cache missed and the registry answers with zero tiles,
\* the call ends in DataUnavailable after that single query, and the mosaic,
\* the transform, the CRS and the cache artifact are left as they were.
C6_NoTilesIsDataUnavailable ==
  [][(pc = "TRY_REMOTE" /\ tiles_to_fetch' = << >>) =>
       /\ pc' = "RAISED"
       /\ raised' = "DataUnavailable"
       /\ fetches' = 1
       /\ placed' = {}
       /\ UNCHANGED <<embedding_mosaic, mosaic_transform, mosaic_crs, tif>>]_vars

\* C6 witness: a fresh manager ended in DataUnavailable with nothing set
C6_Witness ==
  /\ pc = "RAISED"
  /\ raised = "DataUnavailable"
  /\ tiles_to_fetch = << >>
  /\ log = <<"TRY_LOCAL", "MISS", "TRY_REMOTE", "EMPTY">>
  /\ embedding_mosaic = None /\ mosaic_transform = None /\ mosaic_crs = None

\* --------------------------------------------------------------------- C7
\* the looked-for cells whose two files exist
Loadable(f, box) ==
  {cell \in EnumeratedCells(box) : TileLoadable(f, cell[1], cell[2])}

\* C7: the local load misses exactly when the year directory or every
\* looked-for tile is absent; an absent tile never makes it raise (it raises
\* only for present tiles that are malformed or differ in channels); on a
\* hit exactly the present tiles are loaded.
C7_AbsentTilesAreNotErrors ==
  LocalAttempted =>
    /\ log[2] = "MISS" <=> (~year_dir_exists \/ Loadable(files, bbox) = {})
    /\ log[2] = "ERROR" =>
         \/ ChannelMismatch(files, bbox)
         \/ \E cell \in Loadable(files, bbox) : CorruptTile(files, cell)
    /\ log[2] = "HIT" =>
         placed = {[src |-> "local", lon |-> cell[1], lat |-> cell[2]] :
                     cell \in Loadable(files, bbox)}

\* C7 witness: a hit with a tile of the bbox absent from the cache
C7_Witness ==
  /\ LocalDone
  /\ \E cell \in EnumeratedCells(bbox) :
       CellMeets(cell, bbox) /\ ~NpyExists(files, cell[1], cell[2])

\* --------------------------------------------------------------------- C8
\* C8: the tiles one call puts into a mosaic come from one source: local
\* tiles only without any registry query, remote tiles only when no local
\* tile was loadable.
C8_OneSource ==
  /\ Cardinality({t.src : t \in placed}) <= 1
  /\ (\E t \in placed : t.src = "local") => fetches = 0
  /\ (\E t \in placed : t.src = "remote") =>
       (~year_dir_exists \/ Loadable(files, bbox) = {})

\* C8 witness: a mosaic from a partial local cache
C8_Witness ==
  /\ pc = "DONE"
  /\ placed # {}
  /\ \A t \in placed : t.src = "local"
  /\ \E cell \in AllCells :
       CellMeets(cell, bbox) /\ ~TileLoadable(files, cell[1], cell[2])

\* --------------------------------------------------------------------- C9
Permuted(seq, f) == [i \in 1 .. Len(seq) |-> seq[f[i]]]

\* C9: loading the tiles in any other order gives the same mosaic array,
\* shape and transform, or the same failure.
C9_OrderIndependent ==
  (LocalAttempted /\ log[2] \in {"HIT", "ERROR"}
     /\ ~TilesInfo(bbox, files).failed) =>
    LET info == TilesInfo(bbox, files).tiles_info
    IN \A f \in Permutations(1 .. Len(info)) :
         LET a == Assemble(Permuted(info, f))
         IN IF log[2] = "HIT"
            THEN /\ a.kind = "return"
                 /\ a.embedding_mosaic = embedding_mosaic
                 /\ a.mosaic_transform = mosaic_transform
            ELSE a.kind = "raise"

\* C9 witness: a mosaic of two tiles of different sizes, next to a gap
C9_Witness ==
  /\ LocalDone
  /\ \E t1 \in placed, t2 \in placed :
       files[TileName(t1.lon, t1.lat)].data[1] #
         files[TileName(t2.lon, t2.lat)].data[1]
  /\ \E cell \in AllCells :
       CellMeets(cell, bbox) /\ ~TileLoadable(files, cell[1], cell[2])

\* -------------------------------------------------------------------- C10
\* C10: with the present longitudes sorted ascending (index i) and the
\* present latitudes sorted descending (index j), the tile (lon_i, lat_j)
\* fills rows [j*h, (j+1)*h) and columns [i*w, (i+1)*w) of the mosaic, a cell
\* of the cross product without tile is zero there, and the mosaic shape is
\* (n_lat*h, n_lon*w, C).
C10_TilePlacement ==
  LocalDone =>
    LET cells == Loadable(files, bbox)
        lonsP == {cell[1] : cell \in cells}
        latsP == {cell[2] : cell \in cells}
        tile(cell) == LoadTile(files, cell[1], cell[2]).emb
        h == Min({tile(cell).h : cell \in cells})
        w == Min({tile(cell).w : cell \in cells})
        i(lon) == Cardinality({x \in lonsP : x < lon})
        j(lat) == Cardinality({y \in latsP : y > lat})
    IN /\ embedding_mosaic.h = Cardinality(latsP) * h
       /\ embedding_mosaic.w = Cardinality(lonsP) * w
       /\ \A cell \in cells : embedding_mosaic.c = tile(cell).c
       /\ \A lon \in lonsP, lat \in latsP :
            \A r \in 0 .. h - 1, q \in 0 .. w - 1 :
              embedding_mosaic.px[<<j(lat) * h + r, i(lon) * w + q>>] =
                IF <<lon, lat>> \in cells
                THEN tile(<<lon, lat>>).px[<<r, q>>]
                ELSE ZeroVector(embedding_mosaic.c)

\* C10 witness: tiles on two longitudes and two latitudes
C10_Witness ==
  /\ LocalDone
  /\ Cardinality({t.lon : t \in placed}) >= 2
  /\ Cardinality({t.lat : t \in placed}) >= 2

\* -------------------------------------------------------------------- C11
\* the tiles of a stitched local mosaic differ in height or width
Ragged(f, box) ==
  \E c1 \in Loadable(f, box), c2 \in Loadable(f, box) :
    LET t1 == LoadTile(f, c1[1], c1[2]).emb
        t2 == LoadTile(f, c2[1], c2[2]).emb
    IN t1.h # t2.h \/ t1.w # t2.w

\* C11: the canonical tile size is (smallest height, smallest width) of the
\* loaded tiles, and every loaded tile contributes exactly its top-left
\* h x w sub-block: mosaic[j*h + r, i*w + q] = tile[r, q], also when the tiles
\* differ in size.
C11_CanonicalSizeAndCrop ==
  LocalDone =>
    LET cells == Loadable(files, bbox)
        tile(cell) == LoadTile(files, cell[1], cell[2]).emb
        n_lons == Cardinality({cell[1] : cell \in cells})
        n_lats == Cardinality({cell[2] : cell \in cells})
        h == embedding_mosaic.h \div n_lats
        w == embedding_mosaic.w \div n_lons
    IN /\ embedding_mosaic.h = h * n_lats /\ embedding_mosaic.w = w * n_lons
       /\ \A cell \in cells : h <= tile(cell).h /\ w <= tile(cell).w
       /\ \E cell \in cells : h = tile(cell).h
       /\ \E cell \in cells : w = tile(cell).w
       /\ \A cell \in cells :
            LET i == Cardinality({c2[1] : c2 \in {c3 \in cells : c3[1] < cell[1]}})
                j == Cardinality({c2[2] : c2 \in {c3 \in cells : c3[2] > cell[2]}})
            IN \A r \in 0 .. h - 1, q \in 0 .. w - 1 :
                 embedding_mosaic.px[<<j * h + r, i * w + q>>] =
                   tile(cell).px[<<r, q>>]

\* C11 witness: a mosaic stitched from two tiles of different sizes
C11_Witness ==
  /\ LocalDone
  /\ Ragged(files, bbox)
  /\ Cardinality(Loadable(files, bbox)) = 2
  /\ embedding_mosaic.h * embedding_mosaic.w = 2

InPixel(t, pt, r, q) ==
  /\ t.c * t.a[2] + q * t.a[1] <= pt[1] * t.a[2]
  /\ pt[1] * t.a[2] < t.c * t.a[2] + (q + 1) * t.a[1]
  /\ t.f * t.e[2] + (r + 1) * t.e[1] < pt[2] * t.e[2]
  /\ pt[2] * t.e[2] <= t.f * t.e[2] + r * t.e[1]

\* the pixels of the mosaic whose ground cell holds the point
PixelsAt(mosaic, t, pt) ==
  {rq \in (0 .. mosaic.h - 1) \X (0 .. mosaic.w - 1) :
     InPixel(t, pt, rq[1], rq[2])}

\* what a returned sample_at_points result must be for the mosaic sampled
SampledRight(s, mosaic, t) ==
  s.result.kind = "return" =>
    /\ Len(s.result.embeddings) = Len(s.points)
    /\ Len(s.result.valid_mask) = Len(s.points)
    /\ \A i \in 1 .. Len(s.points) :
         /\ s.result.valid_mask[i] = (PixelsAt(mosaic, t, s.points[i]) # {})
         /\ \A rq \in PixelsAt(mosaic, t, s.points[i]) :
              s.result.embeddings[i] = mosaic.px[rq]
         /\ ~s.result.valid_mask[i] =>
              s.result.embeddings[i] = ZeroVector(mosaic.c)

\* C13: sample_at_points returns one result per input point, in input
\* order; a point is valid exactly when its projected pixel satisfies
\* 0 <= row < H and 0 <= col < W; a valid point's embedding is
\* mosaic[row, col, :], an invalid point's embedding is the all-zero vector.
C13_SampleAtPoints ==
  [][(pc = "idle" /\ pc' = "idle" /\ samples' # None) =>
       SampledRight(samples', embedding_mosaic, mosaic_transform)]_vars

\* C13 witness: a returned sample with a valid and an invalid point
C13_Witness ==
  /\ samples # None
  /\ samples.result.kind = "return"
  /\ \E i \in 1 .. Len(samples.points) : samples.result.valid_mask[i]
  /\ \E i \in 1 .. Len(samples.points) : ~samples.result.valid_mask[i]

\* -------------------------------------------------------------------- C14
\* points on, next to and beyond every tile boundary of the modelled grid
ExtentPoints ==
  {3, 5, 7, 12, 15, 17, 20, 25, 27, 30, 35, 37} \X
  {3, 5, 7, 12, 15, 17, 20, 25, 27}

\* the extent of a north-up mosaic: west = t.c, north = t.f,
\* east = west + W * pixel_width, south = north + H * pixel_height
StrictlyInside(mosaic, t, pt) ==
  /\ t.c < pt[1]
  /\ pt[1] * t.a[2] < t.c * t.a[2] + mosaic.w * t.a[1]
  /\ t.f * t.e[2] + mosaic.h * t.e[1] < pt[2] * t.e[2]
  /\ pt[2] < t.f

\* west of the west edge, on or east of the east edge, north of the north
\* edge, on or south of the south edge
Outside(mosaic, t, pt) ==
  \/ pt[1] < t.c
  \/ pt[1] * t.a[2] >= t.c * t.a[2] + mosaic.w * t.a[1]
  \/ pt[2] > t.f
  \/ pt[2] * t.e[2] <= t.f * t.e[2] + mosaic.h * t.e[1]

C16_HalfOpenGrid ==
  (out # None /\ out.op = "generate_prediction_grid") =>
    LET g == out.ret.grid_points
        box == out.bbox
        r == out.resolution
        n_lon == CeilDiv(box[3] - box[1], r)
        n_lat == CeilDiv(box[4] - box[2], r)
    IN /\ Len(g) = n_lon * n_lat
       /\ out.ret.n_lon = n_lon /\ out.ret.n_lat = n_lat
       /\ \A n \in 1 .. Len(g) :
            /\ g[n] = <<box[1] + ((n - 1) % n_lon) * r,
                        box[2] + ((n - 1) \div n_lon) * r>>
            /\ box[1] <= g[n][1] /\ g[n][1] < box[3]
            /\ box[2] <= g[n][2] /\ g[n][2] < box[4]
\* -------------------------------------------------------------------- C15
\* a coordinate pair of fractions <<num, den>> lies in the ground cell of
\* pixel (r, q): west and north edge included, east and south excluded
InPixelAt(t, p, r, q) ==
  /\ (t.c * t.a[2] + q * t.a[1]) * p[1][2] <= p[1][1] * t.a[2]
  /\ p[1][1] * t.a[2] < (t.c * t.a[2] + (q + 1) * t.a[1]) * p[1][2]
  /\ (t.f * t.e[2] + (r + 1) * t.e[1]) * p[2][2] < p[2][1] * t.e[2]
  /\ p[2][1] * t.e[2] <= (t.f * t.e[2] + r * t.e[1]) * p[2][2]

\* the pair is the top-left (north-west) corner of pixel (r, q)
TopLeftOf(t, p, r, q) ==
  /\ p[1][1] * t.a[2] = (t.c * t.a[2] + q * t.a[1]) * p[1][2]
  /\ p[2][1] * t.e[2] = (t.f * t.e[2] + r * t.e[1]) * p[2][2]

\* the pair is the centre of pixel (r, q): half a pixel east and half a
\* pixel south of its top-left corner
CentreOf(t, p, r, q) ==
  /\ 2 * p[1][1] * t.a[2] = (2 * t.c * t.a[2] + (2 * q + 1) * t.a[1]) * p[1][2]
  /\ 2 * p[2][1] * t.e[2] = (2 * t.f * t.e[2] + (2 * r + 1) * t.e[1]) * p[2][2]

\* rowcol floors: the pixel found for a point inside the surface is the one
\* whose ground cell holds the point
RowColFloors(t, scores) ==
  \A pt \in ExtentPoints :
    RowCol(t, pt[1], pt[2]) \in DOMAIN scores.v =>
      InPixel(t, pt, RowCol(t, pt[1], pt[2])[1], RowCol(t, pt[1], pt[2])[2])

\* C15 (as stated): the point-to-pixel mapping floors, and the coordinates
\* to_geojson gives a candidate are the top-left corner of the pixel that
\* carries the candidate's probability, a point of that pixel's cell.
C15_TopLeftCorner ==
  (out # None /\ out.op = "to_geojson") =>
    /\ RowColFloors(prediction.ret.transform, prediction.ret.scores)
    /\ \A i \in 1 .. Len(out.res.features) :
         \E rc \in DOMAIN prediction.ret.scores.v :
           /\ prediction.ret.scores.v[rc] = out.res.features[i].probability
           /\ TopLeftOf(prediction.ret.transform,
                        out.res.features[i].coordinates, rc[1], rc[2])
           /\ InPixelAt(prediction.ret.transform,
                        out.res.features[i].coordinates, rc[1], rc[2])

\* C15 (amended): the point-to-pixel mapping floors, and the coordinates
\* to_geojson gives a candidate are the centre of the pixel that carries the
\* candidate's probability; both round trips hold: the centre of every pixel
\* lies in that pixel's cell and in no other, and the centre of the pixel
\* found for a point inside the surface lies in the cell that holds the
\* point.
C15_PixelCentre ==
  (out # None /\ out.op = "to_geojson") =>
    /\ RowColFloors(prediction.ret.transform, prediction.ret.scores)
    /\ \A i \in 1 .. Len(out.res.features) :
         \E rc \in DOMAIN prediction.ret.scores.v :
           /\ prediction.ret.scores.v[rc] = out.res.features[i].probability
           /\ CentreOf(prediction.ret.transform,
                       out.res.features[i].coordinates, rc[1], rc[2])
           /\ InPixelAt(prediction.ret.transform,
                        out.res.features[i].coordinates, rc[1], rc[2])
    /\ \A rc \in DOMAIN prediction.ret.scores.v :
         {rq \in DOMAIN prediction.ret.scores.v :
            InPixelAt(prediction.ret.transform,
                      Xy(prediction.ret.transform, rc[1], rc[2]),
                      rq[1], rq[2])} = {rc}
    /\ \A pt \in ExtentPoints :
         LET rc == RowCol(prediction.ret.transform, pt[1], pt[2])
         IN rc \in DOMAIN prediction.ret.scores.v =>
              /\ InPixelAt(prediction.ret.transform,
                           Xy(prediction.ret.transform, rc[1], rc[2]),
                           rc[1], rc[2])
              /\ InPixel(prediction.ret.transform, pt, rc[1], rc[2])

\* C15 witness: to_geojson has returned candidates of a surface wider than
\* it is high, one of them off the first row and off the first column
C15_Witness ==
  /\ out # None /\ out.op = "to_geojson"
  /\ prediction.ret.scores.w > prediction.ret.scores.h
  /\ Len(out.res.features) >= 2
  /\ \E i \in 1 .. Len(out.res.features) :
       CentreOf(prediction.ret.transform, out.res.features[i].coordinates,
                1, 3)
\* -------------------------------------------------------------------- C17
\* the probabilities of a feature list never go down
NonDecreasing(features) ==
  \A i \in 1 .. Len(features) - 1 :
    features[i].probability.v <= features[i + 1].probability.v

\* C17: the candidate list generate_candidate_locations returns and the one
\* PredictionResult.to_geojson returns are both sorted ascending by
\* probability, for every number of candidates.
C17_SortedAscending ==
  (/\ out # None
   /\ out.op \in {"generate_candidate_locations", "to_geojson"}
   /\ "features" \in DOMAIN out.res) =>
    NonDecreasing(out.res.features)
\* -------------------------------------------------------------------- C18
\* the grid points whose probability is a number at or above the threshold
PassingPoints(probabilities, threshold) ==
  {i \in 1 .. Len(probabilities) :
     ~probabilities[i].nan /\ probabilities[i].v >= threshold}

\* the pixels whose score is a number at or above the threshold
PassingPixels(scores, threshold) ==
  {rc \in DOMAIN scores.v : ~scores.v[rc].nan /\ scores.v[rc].v >= threshold}

\* the sparse candidates are the passing grid points, each once and with
\* its own probability, and n_candidates counts them
SparseCandidatesExact(o, box) ==
  LET g == GeneratePredictionGrid(box, o.resolution).grid_points
      passing == PassingPoints(o.res.probabilities, o.probability_threshold)
  IN /\ {<<o.res.features[k].coordinates, o.res.features[k].probability>> :
           k \in 1 .. Len(o.res.features)} =
        {<<g[i], o.res.probabilities[i]>> : i \in passing}
     /\ Len(o.res.features) = Cardinality(passing)
     /\ o.res.metadata.n_candidates = Len(o.res.features)

\* every dense candidate is a passing pixel, no pixel twice, with the
\* pixel's own probability, and n_candidates counts the candidates
DenseCandidatesSound(o, self) ==
  LET passing == PassingPixels(self.scores, o.threshold)
  IN /\ \A k \in 1 .. Len(o.res.features) :
          \E rc \in passing :
            /\ CentreOf(self.transform, o.res.features[k].coordinates,
                        rc[1], rc[2])
            /\ o.res.features[k].probability = self.scores.v[rc]
     /\ \A k, l \in 1 .. Len(o.res.features) :
          k # l => o.res.features[k].coordinates # o.res.features[l].coordinates
     /\ o.res.metadata.n_candidates = Len(o.res.features)

\* C18 (as stated): the candidate set is exactly the set of points whose
\* probability is a number >= threshold, in the sparse list of
\* generate_candidate_locations and in the dense list of to_geojson: every
\* such point is a candidate, no other point is, each candidate carries its
\* own probability and the reported count is the number of features.
C18_ExactCandidateSet ==
  /\ (/\ out # None /\ out.op = "generate_candidate_locations"
      /\ out.res.kind = "return") => SparseCandidatesExact(out, bbox)
  /\ (out # None /\ out.op = "to_geojson") =>
       /\ DenseCandidatesSound(out, prediction.ret)
       /\ Len(out.res.features) =
            Cardinality(PassingPixels(prediction.ret.scores, out.threshold))

\* C18 (amended): as stated for generate_candidate_locations; to_geojson
\* returns every pixel at or above the threshold when at most max_points
\* pixels pass, and otherwise max_points different passing pixels; in both
\* cases no pixel below the threshold is a candidate, each candidate carries
\* its own probability and the reported count is the number of features.
C18_CandidateSetUpToMaxPoints ==
  /\ (/\ out # None /\ out.op = "generate_candidate_locations"
      /\ out.res.kind = "return") => SparseCandidatesExact(out, bbox)
  /\ (out # None /\ out.op = "to_geojson") =>
       /\ DenseCandidatesSound(out, prediction.ret)
       /\ Len(out.res.features) =
            Min({Cardinality(PassingPixels(prediction.ret.scores,
                                           out.threshold)),
                 out.max_points})

\* C18 witness: to_geojson has returned max_points candidates of a surface
\* on which more pixels pass, one of them exactly at the threshold
C18_Witness ==
  /\ out # None /\ out.op = "to_geojson"
  /\ Cardinality(PassingPixels(prediction.ret.scores, out.threshold)) >
       out.max_points
  /\ Len(out.res.features) = out.max_points
  /\ \E k \in 1 .. Len(out.res.features) :
       out.res.features[k].probability.v = out.threshold
\* -------------------------------------------------------------------- C19
\* the SW corner of the grid cell of a coordinate given as <<num, den>>
CellCorner(x) == offset + step * FloorDiv(x[1] - offset * x[2], step * x[2])

\* the cache directory holds the tile of the cell of the point (each
\* coordinate a fraction): the point is in coverage
InCoverage(f, p) ==
  /\ TileName(CellCorner(p[1]), CellCorner(p[2])) \in DOMAIN f
  /\ f[TileName(CellCorner(p[1]), CellCorner(p[2]))] # NoTile

\* a grid point is valid: it falls on a pixel of the mosaic and is in
\* coverage
ValidPoint(f, mosaic, t, pt) ==
  /\ PixelsAt(mosaic, t, pt) # {}
  /\ InCoverage(f, << <<pt[1], 1>>, <<pt[2], 1>> >>)

C20_ValidatedBeforeFit ==
  (out # None /\ out.op \in {"fit", "train"}) =>
    /\ (out.n_pos < 2 \/ out.n_neg < 2) =>
         /\ out.kind = "raise" /\ out.error = "ValueError"
         /\ out.fit_calls = 0
         /\ out.op = "fit" => method.model = None
         /\ out.op = "train" => ~classifier.is_trained
         /\ prediction # None => prediction.kind = "raise"
    /\ (out.n_pos = 2 /\ out.n_neg = 2) => out.kind = "return"

\* -------------------------------------------------------------------- C21
\* the enumerated cells of a bbox that the load loop finds no tile for
TilesMissed(f, box) ==
  Cardinality({cell \in EnumeratedCells(box) :
                 ~TileLoadable(f, cell[1], cell[2])})

\* the same cache directory without the tile of one cell
WithoutTile(f, cell) == [f EXCEPT ![TileName(cell[1], cell[2])] = NoTile]

\* C21: a mosaic load hands the number of tiles it missed to its caller: two
\* loads of the same bbox that miss different numbers of tiles return
\* different values
C21_MissCountReturned ==
  LocalDone =>
    \A cell \in EnumeratedCells(bbox) :
      LET f2 == WithoutTile(files, cell)
          r1 == LoadFromLocalCache(bbox, year_dir_exists, files)
          r2 == LoadFromLocalCache(bbox, year_dir_exists, f2)
      IN (/\ TilesMissed(f2, bbox) # TilesMissed(files, bbox)
          /\ r2.kind = "return") => r2.ret # r1.ret

C23_HandlesReleased == pc \in {"DONE", "RAISED"} => open_datasets = 0

\* -------------------------------------------------------------------- C24
\* C24: predict over n embeddings with any batch size returns n scores,
\* score i is the classifier's probability for embedding i, which is what
\* one batch over all rows gives, and the slices the loop assigns cover
\* every index 0 .. n - 1 exactly once
C24_ChunkedEqualsUnchunked ==
  (out # None /\ out.op = "predict") =>
    /\ out.res.kind = "return"
    /\ Len(out.res.scores) = out.n
    /\ \A j \in 1 .. out.n :
         out.res.scores[j] =
           Num(SklearnPredictProba(method.model, Rows(out.n)[j]))
    /\ out.res.scores = ClassifierMethodPredict(method, Rows(out.n),
                                                out.n + 1).scores
    /\ \A j \in 0 .. out.n - 1 :
         Cardinality({b \in DOMAIN out.slices :
                        out.slices[b].i <= j /\ j < out.slices[b].end}) = 1
    /\ \A b \in DOMAIN out.slices :
         0 <= out.slices[b].i /\ out.slices[b].end <= out.n

\* C24 witness: several batches, the last one shorter than batch_size
C24_Witness ==
  /\ out # None /\ out.op = "predict"
  /\ out.n > out.batch_size
  /\ out.n % out.batch_size # 0
  /\ Len(out.slices) >= 3
  /\ Len(out.res.scores) = out.n

\* C24 witness for the empty input
C24_WitnessEmpty ==
  /\ out # None /\ out.op = "predict"
  /\ out.n = 0
  /\ out.res.kind = "return" /\ out.res.scores = << >>

\* -------------------------------------------------------------------- C25
\* points inside the 0.1 degree cell of a tile
CellPoints(cell) == {<<cell[1] + dx, cell[2] + dy>> : dx \in {1, 7}, dy \in {1, 7}}

\* C25: in a mosaic stitched from the local cache, a point inside the cell
\* of a loaded tile samples valid, and the pixel it samples lies in the block
\* of rows and columns that tile was placed in
C25_TilesStayRegistered ==
  LocalDone =>
    LET cells == Loadable(files, bbox)
        lonsP == {cell[1] : cell \in cells}
        latsP == {cell[2] : cell \in cells}
        h == embedding_mosaic.h \div Cardinality(latsP)
        w == embedding_mosaic.w \div Cardinality(lonsP)
        i(lon) == Cardinality({x \in lonsP : x < lon})
        j(lat) == Cardinality({y \in latsP : y > lat})
    IN \A cell \in cells :
         \A pt \in CellPoints(cell) :
           LET rc == RowCol(mosaic_transform, pt[1], pt[2])
           IN /\ SamplePoint(embedding_mosaic, mosaic_transform, pt).valid
              /\ j(cell[2]) * h <= rc[1] /\ rc[1] < (j(cell[2]) + 1) * h
              /\ i(cell[1]) * w <= rc[2] /\ rc[2] < (i(cell[1]) + 1) * w

\* -------------------------------------------------------------------- C26
\* predict on the ClassifierMethod returns scores
MethodTrained(m) == m.model # None /\ m.model.fitted

\* C26: predict, predict_proba and save raise and change nothing while the
\* object is untrained; a trained object stays trained over every call; a
\* train call that raises before the fit leaves is_trained false
C26_Lifecycle ==
  [][/\ (out'.op \in {"predict", "predict_proba", "save"}
           /\ ~classifier.is_trained) =>
          out'.kind = "raise" /\ UNCHANGED <<classifier, method>>
     /\ (out'.op = "method.predict" /\ ~MethodTrained(method)) =>
          out'.kind = "raise" /\ UNCHANGED <<classifier, method>>
     /\ classifier.is_trained => classifier'.is_trained
     /\ MethodTrained(method) => MethodTrained(method')
     /\ (out'.op = "train" /\ out'.kind = "raise"
           /\ out'.at \in {"train_test_split", "cross_val_score"}
           /\ ~classifier.is_trained) => ~classifier'.is_trained]_vars

\* -------------------------------------------------------------------- C27
\* the pixels of the excluded coordinates
ExcludedPixels(t, exclude_coords) ==
  {CoordsToPixel(t, exclude_coords[i][1], exclude_coords[i][2]) :
     i \in 1 .. Len(exclude_coords)}

\* C27: sample_background ends within n_samples * 20 attempts and returns
\* at most n_samples samples, as many embeddings as coordinates; each
\* returned coordinate is that of one pixel of the mosaic, with that pixel's
\* embedding, not the pixel of an excluded coordinate and not all-zero; the
\* returned pixels are pairwise distinct; fewer than n_samples come back
\* only with the attempts used up
C27_SampleBackground ==
  (out # None /\ out.op = "sample_background") =>
    LET r == out.res
        pixels == DOMAIN embedding_mosaic.px
        excluded == ExcludedPixels(mosaic_transform, out.exclude_coords)
    IN /\ r.attempts <= out.n_samples * 20
       /\ Len(r.coords) <= out.n_samples
       /\ Len(r.embeddings) = Len(r.coords)
       /\ \A i \in 1 .. Len(r.coords) :
            \E rc \in pixels :
              /\ PixelToCoords(mosaic_transform, rc[1], rc[2]) = r.coords[i]
              /\ r.embeddings[i] = embedding_mosaic.px[rc]
              /\ rc \notin excluded
              /\ \E k \in DOMAIN r.embeddings[i] : r.embeddings[i][k] # 0
       /\ \A i \in 1 .. Len(r.coords), j \in 1 .. Len(r.coords) :
            i # j => r.coords[i] # r.coords[j]
       /\ Len(r.coords) < out.n_samples => r.attempts = out.n_samples * 20

\* C27 witness: a call that drew an excluded pixel, returned some samples
\* and ran out of attempts before it had n_samples
C27_Witness ==
  /\ out # None /\ out.op = "sample_background"
  /\ 0 < Len(out.res.coords) /\ Len(out.res.coords) < out.n_samples
  /\ \E i \in 1 .. Len(out.draws) :
       DrawnPixel(embedding_mosaic, out.draws[i]) \in
         ExcludedPixels(mosaic_transform, out.exclude_coords)

\* -------------------------------------------------------------------- C28
\* C28: a manager without a mosaic gets one only from a download_embeddings
\* call that completes successfully, and until then sample_at_points raises
\* and returns nothing; when a call has completed successfully the manager
\* holds a mosaic, a transform and a CRS, and in no state does it hold only
\* some of the three
C28_SamplingNeedsMosaic ==
  [][/\ (embedding_mosaic = None /\ pc' # "DONE") => embedding_mosaic' = None
     /\ (samples' # None /\ samples' # samples /\ embedding_mosaic = None) =>
          samples'.result.kind = "raise"
     /\ pc' = "DONE" =>
          /\ embedding_mosaic' # None
          /\ mosaic_transform' # None
          /\ mosaic_crs' # None
     /\ (embedding_mosaic' = None) = (mosaic_transform' = None)
     /\ (embedding_mosaic' = None) = (mosaic_crs' = None)]_vars


====
